---- MODULE Spec2Model ----
(***************************************************************************)
(* A model of BiasClear: the SHA-256 hash-chained audit log                *)
(* (app/audit.py), the truth-score calculator (app/scorer.py), the scan    *)
(* orchestrator (biasclear/detector.py), the learning ring                 *)
(* (app/patterns/learned.py), the pattern proposer, the scan cache and the *)
(* POST /scan and GET /audit/verify handlers (api/main.py).                *)
(*                                                                         *)
(* Text columns are TLA+ strings and concatenation is \o, so the hash      *)
(* input of an audit row is the same undelimited join the code builds.     *)
(* SHA-256 is modelled as an injective function from strings to strings    *)
(* (collision freedom); nothing else about it is assumed.                  *)
(***************************************************************************)
EXTENDS Integers, Sequences, FiniteSets, TLC

VARIABLES
    rows,        \* audit_chain table: a set of rows keyed by id
    seq,         \* sqlite_sequence of audit_chain: the largest id ever assigned
    lockHolder,  \* AuditChain._lock: the thread inside "with self._lock", or "none"
    pc,          \* per thread: where it stands inside its current call
    frame,       \* per thread: the locals of its current call
    ret,         \* the last value returned to a caller: [thread, op, value]
    now,         \* datetime.now(timezone.utc), in ticks
    tamper,      \* what an out-of-band UPDATE changed: [id, field, newid]; field "none" before
    scoreIn,     \* the arguments of a calculate_truth_score call
    scoreOut,    \* its return value: [done, score, breakdown]; done FALSE before
    evalIn,      \* a text and a structural pattern handed to the frozen core
    evalOut,     \* the flags raised for them: [done, flags]; done FALSE before
    corrIn,      \* the arguments of a correct_bias call and the LLM's answers to it
    corrOut,     \* what it returned and the LLM calls it made; done FALSE before
    llmIn,       \* the breaker, the model and the model's answers for a generate call
    llmOut,      \* what the call did: [done, exc, calls, sleeps, breaker]; done FALSE before
    aiIn,        \* a deep result and the local flag ids handed to _extract_ai_flags
    aiOut,       \* the flags it kept: [done, flags]; done FALSE before
    history,     \* the calls completed so far, in order of completion
    windows,     \* rate_limit._windows: key -> timestamps, in access order
    ringThreshold,  \* LearningRing.activation_threshold, as its constructor set it
    cache,       \* ScanCache._cache: key -> [ts, result], as a set of entries
    mono,        \* time.monotonic(), in seconds
    ring,        \* learned_patterns table of the LearningRing
    breaker,     \* CircuitBreaker: [failures, last_failure_time, state]
    resp,        \* the last POST /scan exchange: request, active learned patterns
                 \* read, response, steps taken
    served,      \* number of POST /scan requests handled so far
    seen         \* one earlier scan_local call, kept to compare later calls with

auditVars == <<rows, seq, lockHolder, pc, frame, ret, now, tamper>>
scoreVars == <<scoreIn, scoreOut>>
evalVars == <<evalIn, evalOut>>
corrVars == <<corrIn, corrOut>>
unitVars == <<llmIn, llmOut, aiIn, aiOut, history, windows, ringThreshold>>
scanVars == <<cache, mono, ring, breaker, resp, served, seen>>
vars == <<rows, seq, lockHolder, pc, frame, ret, now, tamper, scoreIn, scoreOut,
          evalIn, evalOut, corrIn, corrOut, llmIn, llmOut, aiIn, aiOut, history,
          windows, ringThreshold, cache, mono, ring, breaker, resp, served,
          seen>>

(***************************************************************************)
(* Bounds of the model.                                                    *)
(***************************************************************************)
MaxChain == 3      \* rows the audit table may hold
MaxClock == 1      \* ticks the wall clock may advance
MaxLimit == 4      \* largest limit passed to verify_chain / get_recent
MaxFlags == 2      \* core flags in one calculate_truth_score input
MaxAiFlags == 2    \* AI flags in one calculate_truth_score input
MaxScans == 3      \* POST /scan requests handled in one behaviour
MaxMono == 60      \* the monotonic clock advances only while below this
MaxConfirmations == 6    \* confirmations the ring's patterns may hold in total
MaxEvaluations == 7      \* evaluations recorded in total
MaxFalsePositives == 2   \* false positives reported in total
MaxMatches == 2          \* matches of one structural pattern in one text
TextLen == 400           \* characters of a text laid out with matches and citations

\* LearningRing.__init__: the default of its activation_threshold parameter
activation_threshold == 5

Threads == {"t1", "t2"}

(***************************************************************************)
(* Small helpers.                                                          *)
(***************************************************************************)
Digit == <<"0", "1", "2", "3", "4", "5", "6", "7", "8", "9">>

RECURSIVE IntStr(_)
\* str(n) for a natural number n
IntStr(n) == IF n < 10 THEN Digit[n + 1]
             ELSE IntStr(n \div 10) \o Digit[(n % 10) + 1]

Min(a, b) == IF a < b THEN a ELSE b
Max(a, b) == IF a > b THEN a ELSE b

Take(s, n) == SubSeq(s, 1, Min(n, Len(s)))

(***************************************************************************)
(* Python values passed as audit data, and json.dumps(data, default=str).  *)
(***************************************************************************)
PyNone == [t |-> "none"]
PyBool(b) == [t |-> "bool", v |-> b]
PyInt(n) == [t |-> "int", v |-> n]
PyStr(s) == [t |-> "str", v |-> s]
PyList(s) == [t |-> "list", v |-> s]
\* a dict in insertion order: a sequence of <<key, value>> pairs
PyDict(s) == [t |-> "dict", v |-> s]

RECURSIVE JsonDumps(_)
RECURSIVE JsonItems(_)
RECURSIVE JsonPairs(_)
JsonItems(s) ==
    IF Len(s) = 0 THEN ""
    ELSE IF Len(s) = 1 THEN JsonDumps(s[1])
    ELSE JsonDumps(s[1]) \o ", " \o JsonItems(Tail(s))
JsonPairs(s) ==
    IF Len(s) = 0 THEN ""
    ELSE IF Len(s) = 1 THEN "\"" \o s[1][1] \o "\": " \o JsonDumps(s[1][2])
    ELSE "\"" \o s[1][1] \o "\": " \o JsonDumps(s[1][2]) \o ", " \o JsonPairs(Tail(s))
JsonDumps(d) ==
    CASE d.t = "none" -> "null"
      [] d.t = "bool" -> (IF d.v THEN "true" ELSE "false")
      [] d.t = "int"  -> IntStr(d.v)
      [] d.t = "str"  -> "\"" \o d.v \o "\""
      [] d.t = "list" -> "[" \o JsonItems(d.v) \o "]"
      [] d.t = "dict" -> "{" \o JsonPairs(d.v) \o "}"

(***************************************************************************)
(* The audit chain (app/audit.py).                                         *)
(***************************************************************************)
GENESIS == "0000000000000000000000000000000000000000000000000000000000000000"

\* hashlib.sha256(s.encode()).hexdigest(): an injective map of strings
Sha256(s) == "sha(" \o s \o ")"

\* datetime.now(timezone.utc).isoformat()
IsoFormat(n) == "2026-01-01T00:00:0" \o IntStr(n) \o "+00:00"

RECURSIVE OrderAsc(_)
\* SELECT ... ORDER BY id ASC
OrderAsc(rs) ==
    IF rs = {} THEN <<>>
    ELSE LET m == CHOOSE r \in rs : \A q \in rs : r.id <= q.id
         IN <<m>> \o OrderAsc(rs \ {m})

RECURSIVE OrderDesc(_)
\* SELECT ... ORDER BY id DESC
OrderDesc(rs) ==
    IF rs = {} THEN <<>>
    ELSE LET m == CHOOSE r \in rs : \A q \in rs : r.id >= q.id
         IN <<m>> \o OrderDesc(rs \ {m})

\* a faulty _get_prev_hash: ORDER BY id ASC, the hash of the oldest row
GetPrevHashOldest(rs) ==
    IF rs = {} THEN GENESIS ELSE OrderAsc(rs)[1].hash

\* _get_prev_hash: the hash of the row with the greatest id, or the genesis value
GetPrevHash(rs) ==
    IF rs = {} THEN GENESIS ELSE OrderDesc(rs)[1].hash

\* chain_input in log (line 85)
LogChainInput(prev_hash, event_type, data_str, timestamp, core_version) ==
    prev_hash \o event_type \o data_str \o timestamp \o core_version

\* a faulty chain_input of verify_chain: timestamp and data_str swapped
VerifyChainInputSwapped(prev_hash, event_type, data_str, timestamp, core_version) ==
    prev_hash \o event_type \o timestamp \o data_str \o core_version

\* a faulty chain_input of verify_chain: data_str left out
VerifyChainInputNoData(prev_hash, event_type, data_str, timestamp, core_version) ==
    prev_hash \o event_type \o timestamp \o core_version

\* chain_input in verify_chain (line 139)
VerifyChainInput(prev_hash, event_type, data_str, timestamp, core_version) ==
    prev_hash \o event_type \o data_str \o timestamp \o core_version

\* INTEGER PRIMARY KEY AUTOINCREMENT: one more than the largest id ever used
NewId(rs, sq) ==
    LET largest == IF rs = {} THEN 0 ELSE OrderDesc(rs)[1].id
    IN Max(sq, largest) + 1

\* a faulty INSERT: keeps one row per event type, replacing the earlier one
InsertRowReplacing(rs, row) ==
    {r \in rs : r.event_type # row.event_type} \cup {row}

\* the INSERT of log (lines 88-94)
InsertRow(rs, row) == rs \cup {row}

\* a faulty log without the lock: any thread enters at once
CanAcquireUnlocked(t) == TRUE

\* "with self._lock" (line 79): a thread enters only when no thread is inside
CanAcquire(t) == lockHolder = "none"

RECURSIVE VerifyLoop(_, _)
\* the for-loop of verify_chain over rows i..Len(rs), yielding the broken links
VerifyLoop(rs, i) ==
    IF i > Len(rs) THEN <<>>
    ELSE LET row == rs[i]
             computed_hash == Sha256(VerifyChainInput(row.prev_hash, row.event_type,
                                         row.data, row.timestamp, row.core_version))
             mismatch == IF computed_hash # row.hash
                         THEN << [id |-> row.id, issue |-> "hash_mismatch",
                                  expected |-> computed_hash, stored |-> row.hash] >>
                         ELSE <<>>
             break == IF i > 1 /\ row.prev_hash # rs[i - 1].hash
                      THEN << [id |-> row.id, issue |-> "chain_break",
                               expected |-> rs[i - 1].hash, stored |-> row.prev_hash] >>
                      ELSE <<>>
         IN mismatch \o break \o VerifyLoop(rs, i + 1)

\* AuditChain.verify_chain(limit)
VerifyChain(rs, limit) ==
    LET sel == Take(OrderAsc(rs), limit)
    IN IF Len(sel) = 0
       THEN [verified |-> TRUE, entries_checked |-> 0, broken_links |-> <<>>]
       ELSE LET broken == VerifyLoop(sel, 1)
            IN [verified |-> Len(broken) = 0,
                entries_checked |-> Len(sel),
                broken_links |-> broken]

\* the SELECT of get_recent(limit, event_type): newest first, optionally filtered
GetRecentRows(rs, limit, event_type) ==
    IF event_type # "none"
    THEN Take(OrderDesc({r \in rs : r.event_type = event_type}), limit)
    ELSE Take(OrderDesc(rs), limit)

\* AuditChain.get_count
GetCount(rs) == Cardinality(rs)

\* the verification result as the dict handed to log by /audit/verify
BrokenLinkPy(b) ==
    IF b.issue = "hash_mismatch"
    THEN PyDict(<< <<"id", PyInt(b.id)>>, <<"issue", PyStr(b.issue)>>,
                   <<"expected", PyStr(b.expected)>>, <<"stored", PyStr(b.stored)>> >>)
    ELSE PyDict(<< <<"id", PyInt(b.id)>>, <<"issue", PyStr(b.issue)>>,
                   <<"expected_prev", PyStr(b.expected)>>, <<"stored_prev", PyStr(b.stored)>> >>)

VerificationPy(res) ==
    PyDict(<< <<"verified", PyBool(res.verified)>>,
              <<"entries_checked", PyInt(res.entries_checked)>>,
              <<"broken_links",
                PyList([i \in 1..Len(res.broken_links) |-> BrokenLinkPy(res.broken_links[i])])>> >>)

(***************************************************************************)
(* Inputs of the audit operations.                                         *)
(***************************************************************************)
CORE_VERSION == "1.2.0"
EventTypes == {"scan_local", "correction"}
LogData == {PyInt(1), PyDict(<< <<"truth_score", PyInt(1)>> >>)}
CoreVersions == {CORE_VERSION}
Limits == 1..MaxLimit
NoFrame == [op |-> "none"]
NoRet == [thread |-> "none", op |-> "none", value |-> "none"]
NoTamper == [id |-> 0, field |-> "none", newid |-> 0]
NoScoreIn == [called |-> FALSE]
NoScoreOut == [done |-> FALSE]
NoResp == [status |-> 0, trace |-> <<>>, learned |-> <<>>]
NoSeen == [op |-> "none"]
NoEvalIn == [called |-> FALSE]
NoEvalOut == [done |-> FALSE]
NoCorrIn == [called |-> FALSE]
NoCorrOut == [done |-> FALSE]
NoLlmIn == [called |-> FALSE]
NoLlmOut == [done |-> FALSE]
NoAiIn == [called |-> FALSE]
NoAiOut == [done |-> FALSE]
BreakerClosed == [failures |-> 0, last_failure_time |-> 0, state |-> "closed"]

(***************************************************************************)
(* AuditChain.log, step by step: a caller waits for the lock, reads the    *)
(* previous hash and builds the new hash, then inserts, commits and leaves *)
(* the lock.                                                               *)
(***************************************************************************)
\* a thread calls audit_chain.log(event_type, data, core_version)
CallLog(t, e, d, cv) ==
    /\ pc[t] = "idle"
    /\ Cardinality(rows) + Cardinality({u \in Threads : pc[u] # "idle"}) < MaxChain
    /\ pc' = [pc EXCEPT ![t] = "log_lock"]
    /\ frame' = [frame EXCEPT ![t] = [op |-> "log", event_type |-> e, data |-> d,
                                      core_version |-> cv]]
    /\ UNCHANGED <<rows, seq, lockHolder, ret, now, tamper, scoreVars, evalVars, corrVars, unitVars, scanVars>>

\* with self._lock:
LogAcquire(t) ==
    /\ pc[t] = "log_lock"
    /\ CanAcquire(t)
    /\ lockHolder' = t
    /\ pc' = [pc EXCEPT ![t] = "log_read"]
    /\ UNCHANGED <<rows, seq, frame, ret, now, tamper, scoreVars, evalVars, corrVars, unitVars, scanVars>>

\* lines 81-86: prev_hash, timestamp, data_str, chain_input, new_hash
LogRead(t) ==
    /\ pc[t] = "log_read"
    /\ LET prev_hash == GetPrevHash(rows)
           timestamp == IsoFormat(now)
           data_str == JsonDumps(frame[t].data)
           new_hash == Sha256(LogChainInput(prev_hash, frame[t].event_type, data_str,
                                            timestamp, frame[t].core_version))
       IN frame' = [frame EXCEPT ![t] =
                [op |-> frame[t].op, event_type |-> frame[t].event_type,
                 data |-> frame[t].data, core_version |-> frame[t].core_version,
                 result |-> IF frame[t].op = "verify_audit" THEN frame[t].result ELSE "none",
                 prev_hash |-> prev_hash, timestamp |-> timestamp,
                 data_str |-> data_str, new_hash |-> new_hash]]
    /\ pc' = [pc EXCEPT ![t] = "log_insert"]
    /\ UNCHANGED <<rows, seq, lockHolder, ret, now, tamper, scoreVars, evalVars, corrVars, unitVars, scanVars>>

\* lines 88-95: INSERT, commit, leave the lock, return new_hash
LogInsert(t) ==
    /\ pc[t] = "log_insert"
    /\ LET id == NewId(rows, seq)
           row == [id |-> id, prev_hash |-> frame[t].prev_hash, hash |-> frame[t].new_hash,
                   event_type |-> frame[t].event_type, data |-> frame[t].data_str,
                   timestamp |-> frame[t].timestamp,
                   core_version |-> frame[t].core_version]
       IN /\ rows' = InsertRow(rows, row)
          /\ seq' = id
    /\ lockHolder' = IF lockHolder = t THEN "none" ELSE lockHolder
    /\ ret' = [thread |-> t, op |-> frame[t].op,
               value |-> IF frame[t].op = "verify_audit" THEN frame[t].result
                         ELSE frame[t].new_hash]
    /\ pc' = [pc EXCEPT ![t] = "idle"]
    /\ frame' = [frame EXCEPT ![t] = NoFrame]
    /\ UNCHANGED <<now, tamper, scoreVars, evalVars, corrVars, unitVars, scanVars>>

(***************************************************************************)
(* The read operations, each one SELECT, and GET /audit/verify.            *)
(***************************************************************************)
\* audit_chain.verify_chain(limit), called directly
CallVerifyChain(t, limit) ==
    /\ pc[t] = "idle"
    /\ ret' = [thread |-> t, op |-> "verify_chain", value |-> VerifyChain(rows, limit)]
    /\ UNCHANGED <<rows, seq, lockHolder, pc, frame, now, tamper, scoreVars, evalVars, corrVars, unitVars, scanVars>>

\* audit_chain.get_recent(limit, event_type)
CallGetRecent(t, limit, e) ==
    /\ pc[t] = "idle"
    /\ ret' = [thread |-> t, op |-> "get_recent", value |-> GetRecentRows(rows, limit, e)]
    /\ UNCHANGED <<rows, seq, lockHolder, pc, frame, now, tamper, scoreVars, evalVars, corrVars, unitVars, scanVars>>

\* audit_chain.get_count()
CallGetCount(t) ==
    /\ pc[t] = "idle"
    /\ ret' = [thread |-> t, op |-> "get_count", value |-> GetCount(rows)]
    /\ UNCHANGED <<rows, seq, lockHolder, pc, frame, now, tamper, scoreVars, evalVars, corrVars, unitVars, scanVars>>

\* GET /audit/verify: verify_chain(limit), then log("chain_verified", result)
VerifyAudit(t, limit) ==
    /\ pc[t] = "idle"
    /\ Cardinality(rows) + Cardinality({u \in Threads : pc[u] # "idle"}) < MaxChain
    /\ LET result == VerifyChain(rows, limit)
       IN frame' = [frame EXCEPT ![t] =
                [op |-> "verify_audit", event_type |-> "chain_verified",
                 data |-> VerificationPy(result), core_version |-> CORE_VERSION,
                 result |-> result]]
    /\ pc' = [pc EXCEPT ![t] = "log_lock"]
    /\ UNCHANGED <<rows, seq, lockHolder, ret, now, tamper, scoreVars, evalVars, corrVars, unitVars, scanVars>>

\* the wall clock advances
Tick ==
    /\ now < MaxClock
    /\ now' = now + 1
    /\ UNCHANGED <<rows, seq, lockHolder, pc, frame, ret, tamper, scoreVars, evalVars, corrVars, unitVars, scanVars>>

Init ==
    /\ rows = {}
    /\ seq = 0
    /\ lockHolder = "none"
    /\ pc = [t \in Threads |-> "idle"]
    /\ frame = [t \in Threads |-> NoFrame]
    /\ ret = NoRet
    /\ now = 0
    /\ tamper = NoTamper
    /\ scoreIn = NoScoreIn
    /\ scoreOut = NoScoreOut
    /\ evalIn = NoEvalIn
    /\ evalOut = NoEvalOut
    /\ corrIn = NoCorrIn
    /\ llmIn = NoLlmIn
    /\ llmOut = NoLlmOut
    /\ aiIn = NoAiIn
    /\ aiOut = NoAiOut
    /\ history = <<>>
    /\ windows = <<>>
    /\ ringThreshold = activation_threshold
    /\ corrOut = NoCorrOut
    /\ cache = <<>>
    /\ mono = 0
    /\ ring = <<>>
    /\ breaker = BreakerClosed
    /\ resp = NoResp
    /\ served = 0
    /\ seen = NoSeen

NextAudit ==
    \/ \E t \in Threads, e \in EventTypes, d \in LogData, cv \in CoreVersions :
           CallLog(t, e, d, cv)
    \/ \E t \in Threads : LogAcquire(t)
    \/ \E t \in Threads : LogRead(t)
    \/ \E t \in Threads : LogInsert(t)
    \/ \E t \in Threads, limit \in Limits : CallVerifyChain(t, limit)
    \/ \E t \in Threads, limit \in Limits, e \in EventTypes \cup {"none"} :
           CallGetRecent(t, limit, e)
    \/ \E t \in Threads : CallGetCount(t)
    \/ \E t \in Threads, limit \in Limits : VerifyAudit(t, limit)
    \/ Tick

\* the audit chain under concurrent callers, never touched out-of-band
SpecAudit == Init /\ [][NextAudit]_vars

(***************************************************************************)
(* Out-of-band tampering: one UPDATE of one column of one row, made        *)
(* directly on the database file, followed by verify_chain calls.          *)
(***************************************************************************)
Writer == "t1"

TamperFields == {"id", "prev_hash", "hash", "event_type", "data", "timestamp",
                 "core_version"}

\* the values an out-of-band UPDATE may write into a column
TamperValues(f) ==
    CASE f = "id" -> (1..(MaxChain + 1)) \ {r.id : r \in rows}
      [] f = "prev_hash" -> {GENESIS, Sha256("forged")} \cup {r.hash : r \in rows}
      [] f = "hash" -> {GENESIS, Sha256("forged")} \cup {r.hash : r \in rows}
      [] f = "event_type" -> EventTypes \cup {"chain_verified"}
      [] f = "data" -> {JsonDumps(d) : d \in LogData} \cup {"{}"}
      [] f = "timestamp" -> {IsoFormat(n) : n \in 0..(MaxClock + 1)}
      [] f = "core_version" -> CoreVersions \cup {"1.0.0"}

\* UPDATE audit_chain SET f = v WHERE id = r.id, outside the program
Tamper(r, f, v) ==
    /\ tamper = NoTamper
    /\ \A t \in Threads : pc[t] = "idle"
    /\ r \in rows
    /\ v # r[f]
    /\ rows' = (rows \ {r}) \cup {[r EXCEPT ![f] = v]}
    /\ tamper' = [id |-> r.id, field |-> f, newid |-> IF f = "id" THEN v ELSE r.id]
    /\ UNCHANGED <<seq, lockHolder, pc, frame, ret, now, scoreVars, evalVars, corrVars, unitVars, scanVars>>

NextTamper ==
    \/ \E e \in EventTypes, d \in LogData, cv \in CoreVersions :
           tamper = NoTamper /\ CallLog(Writer, e, d, cv)
    \/ tamper = NoTamper /\ LogAcquire(Writer)
    \/ tamper = NoTamper /\ LogRead(Writer)
    \/ tamper = NoTamper /\ LogInsert(Writer)
    \/ tamper = NoTamper /\ Tick
    \/ \E r \in rows, f \in TamperFields : \E v \in TamperValues(f) : Tamper(r, f, v)
    \/ \E limit \in Limits : tamper # NoTamper /\ CallVerifyChain(Writer, limit)

\* chains written by log, then one out-of-band change, then verification
SpecTamper == Init /\ [][NextTamper]_vars

(***************************************************************************)
(* The truth-score calculator (app/scorer.py).                             *)
(*                                                                         *)
(* A Python dict is a TLA+ record holding exactly the keys present, so     *)
(* dict.get(key, default) is DictGet.  None and the empty dict are both    *)
(* falsy and the code only ever tests the deep result's truthiness, so     *)
(* both are the record with no keys, NoDeep.  pit_tier_active is kept as   *)
(* the list of pieces split("_") yields; None is the empty list.           *)
(***************************************************************************)
DictGet(d, k, default) == IF k \in DOMAIN d THEN d[k] ELSE default

NoDeep == <<>>
Truthy(d) == DOMAIN d # {}

\* int(s) for a one-character string: raises ValueError unless s is a digit
IsInt(s) == \E n \in 0..9 : Digit[n + 1] = s
ParseInt(s) == CHOOSE n \in 0..9 : Digit[n + 1] = s

structural_penalty == [critical |-> 25, high |-> 20, moderate |-> 14, low |-> 8]
tier_penalty == (1 :> 10) @@ (2 :> 7) @@ (3 :> 4)
ai_penalty_map == [critical |-> 14, high |-> 10, moderate |-> 6, low |-> 3]
deep_sev_penalty == [critical |-> 20, high |-> 15, moderate |-> 8, low |-> 4, none |-> 0]

RECURSIVE FlagLoop(_, _)
\* for flag in core_eval.flags: ...
FlagLoop(flags, acc) ==
    IF flags = <<>> THEN acc
    ELSE LET flag == Head(flags)
         IN IF flag.category = "structural"
            THEN LET pen == DictGet(structural_penalty, flag.severity, 8)
                 IN FlagLoop(Tail(flags),
                        [acc EXCEPT !.score = @ - pen,
                                    !.tier_set = @ \cup {flag.pit_tier},
                                    !.core_structural_penalties = Append(@, -pen)])
            ELSE IF flag.category = "marker"
            THEN FlagLoop(Tail(flags),
                        [acc EXCEPT !.score = @ - 4, !.marker_count = @ + 1])
            ELSE FlagLoop(Tail(flags), acc)

\* the dominant-tier penalty; a label that does not parse costs nothing
PitTierPenalty(pit_tier_active) ==
    IF pit_tier_active = <<>> THEN 0
    ELSE IF Len(pit_tier_active) < 2 THEN 0            \* IndexError
    ELSE IF ~IsInt(pit_tier_active[2]) THEN 0          \* ValueError
    ELSE DictGet(tier_penalty, ParseInt(pit_tier_active[2]), 0)

\* the multi-tier diversity penalty
MultiTierPenalty(tier_set) ==
    IF Cardinality(tier_set) > 1 THEN (Cardinality(tier_set) - 1) * 5 ELSE 0

RECURSIVE AiLoop(_, _)
\* for af in ai_flags: ...
AiLoop(ai_flags, acc) ==
    IF ai_flags = <<>> THEN acc
    ELSE LET af == Head(ai_flags)
             sev == DictGet(af, "severity", "moderate")
             pen == DictGet(ai_penalty_map, sev, 6)
         IN AiLoop(Tail(ai_flags),
                [acc EXCEPT !.score = @ - pen,
                            !.ai_flag_penalties = Append(@, -pen)])

DeepSeverityPenalty(deep_result) ==
    IF Truthy(deep_result)
    THEN DictGet(deep_sev_penalty, DictGet(deep_result, "severity", "none"), 0)
    ELSE 0

DeepBiasTypePenalty(deep_result) ==
    IF Truthy(deep_result)
    THEN LET bias_types == DictGet(deep_result, "bias_types", <<>>)
             unique_types == {bias_types[i] : i \in DOMAIN bias_types} \ {"none"}
         IN Cardinality(unique_types) * 4
    ELSE 0

\* the clamp removed: the raw difference is returned
ClampNone(score) == score

\* final = max(0, min(100, score))
Clamp(score) == Max(0, Min(100, score))

calculate_truth_score(core_eval, deep_result, ai_flags) ==
    LET start == [score |-> 100, tier_set |-> {}, marker_count |-> 0,
                  core_structural_penalties |-> <<>>, ai_flag_penalties |-> <<>>]
        afterFlags == FlagLoop(core_eval.flags, start)
        tierPen == PitTierPenalty(core_eval.pit_tier_active)
        multiPen == MultiTierPenalty(afterFlags.tier_set)
        afterAi == AiLoop(ai_flags,
                       [afterFlags EXCEPT !.score = @ - tierPen - multiPen])
        sevPen == DeepSeverityPenalty(deep_result)
        typePen == DeepBiasTypePenalty(deep_result)
        final == Clamp(afterAi.score - sevPen - typePen)
    IN [score |-> final,
        breakdown |->
            [starting_score |-> 100,
             core_structural_penalties |-> afterAi.core_structural_penalties,
             core_marker_penalty |-> -(afterAi.marker_count * 4),
             pit_tier_penalty |-> -tierPen,
             multi_tier_penalty |-> -multiPen,
             ai_flag_penalties |-> afterAi.ai_flag_penalties,
             deep_severity_penalty |-> -sevPen,
             deep_bias_type_penalty |-> -typePen,
             final_score |-> final]]

(***************************************************************************)
(* Inputs of calculate_truth_score.  Core flags carry the severities and   *)
(* tiers the frozen core and the learning ring admit; markers are always   *)
(* low, tier 1 (frozen_core.evaluate).  AI flags carry the severities      *)
(* _extract_ai_flags normalises to.  The deep result is whatever JSON the  *)
(* LLM sent, so its severity and bias types are not normalised.            *)
(***************************************************************************)
\* a set of severities that lets an unknown one through
SeveritiesAndMore == {"critical", "high", "moderate", "low", "extreme"}

\* the severities of flags and of patterns (valid_severities in propose)
Severities == {"critical", "high", "moderate", "low"}
Tiers == 1..3

StructuralFlag(sev, tier) ==
    [category |-> "structural", severity |-> sev, pit_tier |-> tier]
MarkerFlag == [category |-> "marker", severity |-> "low", pit_tier |-> 1]

ScoreFlags == {StructuralFlag(sev, tier) : sev \in Severities, tier \in Tiers}
                  \cup {MarkerFlag}

SeqsUpTo(S, n) == UNION {[1..k -> S] : k \in 0..n}

TierLabels == {<<>>,
               <<"tier", "1", "ideological">>,
               <<"tier", "2", "psychological">>,
               <<"tier", "3", "institutional">>,
               <<"none">>,
               <<"tier", "x">>}

ScoreAiFlags == {[severity |-> sev] : sev \in Severities}

ScoreBiasTypes == {<<>>, <<"none">>, <<"framing", "framing">>,
                   <<"framing", "none", "omission">>}

ScoreDeepResults ==
    {NoDeep}
        \cup {[severity |-> sev, bias_types |-> bt] :
                 sev \in Severities \cup {"none", "severe"}, bt \in ScoreBiasTypes}
        \cup {[bias_types |-> bt] : bt \in ScoreBiasTypes}

ScoreInputs ==
    [called : {TRUE},
     core_eval : [flags : SeqsUpTo(ScoreFlags, MaxFlags), pit_tier_active : TierLabels],
     deep_result : ScoreDeepResults,
     ai_flags : SeqsUpTo(ScoreAiFlags, MaxAiFlags)]

InitScore ==
    /\ rows = {}
    /\ seq = 0
    /\ lockHolder = "none"
    /\ pc = [t \in Threads |-> "idle"]
    /\ frame = [t \in Threads |-> NoFrame]
    /\ ret = NoRet
    /\ now = 0
    /\ tamper = NoTamper
    /\ scoreIn \in ScoreInputs
    /\ scoreOut = NoScoreOut
    /\ evalIn = NoEvalIn
    /\ evalOut = NoEvalOut
    /\ corrIn = NoCorrIn
    /\ llmIn = NoLlmIn
    /\ llmOut = NoLlmOut
    /\ aiIn = NoAiIn
    /\ aiOut = NoAiOut
    /\ history = <<>>
    /\ windows = <<>>
    /\ ringThreshold = activation_threshold
    /\ corrOut = NoCorrOut
    /\ cache = <<>>
    /\ mono = 0
    /\ ring = <<>>
    /\ breaker = BreakerClosed
    /\ resp = NoResp
    /\ served = 0
    /\ seen = NoSeen

\* one call of calculate_truth_score on the drawn arguments
Score ==
    /\ scoreIn.called
    /\ ~scoreOut.done
    /\ scoreOut' = [done |-> TRUE]
                       @@ calculate_truth_score(scoreIn.core_eval,
                                                scoreIn.deep_result,
                                                scoreIn.ai_flags)
    /\ UNCHANGED <<auditVars, scoreIn, evalVars, corrVars, unitVars, scanVars>>

NextScore == Score

SpecScore == InitScore /\ [][NextScore]_vars

(***************************************************************************)
(* The LLM provider and its circuit breaker (biasclear/llm/gemini.py).     *)
(* One generate call is one step: its outcome says whether every attempt   *)
(* on the primary and the fallback model failed ("error"), whether the     *)
(* model answered with text that is not JSON ("bad_json"), or which JSON   *)
(* object it answered with ("json").                                       *)
(***************************************************************************)
CB_FAILURE_THRESHOLD == 3
CB_RECOVERY_TIMEOUT == 60

\* CircuitBreaker.state: an open breaker is half-open once the timeout has passed
\* a faulty state property: an open breaker is half-open at once
BreakerStateNoWait(br, t) ==
    IF br.state = "open" THEN [br EXCEPT !.state = "half-open"] ELSE br

\* CircuitBreaker.state at monotonic time t
BreakerState(br, t) ==
    IF br.state = "open" /\ t - br.last_failure_time >= CB_RECOVERY_TIMEOUT
    THEN [br EXCEPT !.state = "half-open"]
    ELSE br

\* a faulty record_success: the failure count is kept
record_successKeepsCount(br) == [br EXCEPT !.state = "closed"]

record_success(br) == [br EXCEPT !.failures = 0, !.state = "closed"]

record_failure(br, t) ==
    [failures |-> br.failures + 1,
     last_failure_time |-> t,
     state |-> IF br.failures + 1 >= CB_FAILURE_THRESHOLD THEN "open" ELSE br.state]

\* LLMProvider.generate_json over GeminiProvider.generate: the exception
\* raised ("none" when it returns), the value returned, the breaker afterwards
generate_json(br, t, outcome) ==
    LET b == BreakerState(br, t)
    IN IF b.state = "open"
       THEN [exc |-> "CircuitOpenError", value |-> NoDeep, breaker |-> b]
       ELSE IF outcome.kind = "error"
       THEN [exc |-> "Exception", value |-> NoDeep, breaker |-> record_failure(b, t)]
       ELSE IF outcome.kind = "bad_json"
       THEN [exc |-> "ValueError", value |-> NoDeep, breaker |-> record_success(b)]
       ELSE [exc |-> "none", value |-> outcome.value, breaker |-> record_success(b)]

(***************************************************************************)
(* The frozen core's evaluation (biasclear/frozen_core.py), the part the   *)
(* scans need.  A text is given together with the flags that phase 1 and   *)
(* phase 2 of evaluate raise on it from the frozen patterns and markers,   *)
(* and with the set of learned-pattern regexes that match it.              *)
(***************************************************************************)
PIT_TIER_NAMES == (1 :> "ideological") @@ (2 :> "psychological") @@ (3 :> "institutional")

\* _dominant_tier: structural flags weigh 3, markers 1; the first tier with
\* the greatest weight wins; None (the empty list) without flags
DominantTier(flags) ==
    IF flags = <<>> THEN <<>>
    ELSE LET weight(f) == IF f.category = "structural" THEN 3 ELSE 1
             RECURSIVE Sum(_, _)
             Sum(i, tier) ==
                 IF i > Len(flags) THEN 0
                 ELSE (IF flags[i].pit_tier = tier THEN weight(flags[i]) ELSE 0)
                          + Sum(i + 1, tier)
             tier_counts == [tier \in Tiers |-> Sum(1, tier)]
             dominant == CHOOSE d \in Tiers :
                             /\ \A e \in Tiers : tier_counts[e] <= tier_counts[d]
                             /\ \A e \in Tiers : e < d => tier_counts[e] < tier_counts[d]
         IN IF tier_counts[dominant] = 0 THEN <<>>
            ELSE <<"tier", IntStr(dominant), PIT_TIER_NAMES[dominant]>>

\* the flags of the learned patterns passed as external_patterns
RECURSIVE ExternalFlags(_, _)
ExternalFlags(text, patterns) ==
    IF patterns = <<>> THEN <<>>
    ELSE LET p == Head(patterns)
             rest == ExternalFlags(text, Tail(patterns))
         IN IF p.regex \in text.matches
            THEN <<[category |-> "structural", pattern_id |-> p.pattern_id,
                    pit_tier |-> p.pit_tier, severity |-> p.severity]>> \o rest
            ELSE rest

\* _classify_knowledge
ClassifyKnowledge(flags) ==
    LET structural_count == Len(SelectSeq(flags, LAMBDA f : f.category = "structural"))
        marker_count == Len(SelectSeq(flags, LAMBDA f : f.category = "marker"))
        total == structural_count + marker_count
    IN IF flags = <<>> THEN "neutral"
       ELSE IF structural_count >= 2 \/ total >= 4 THEN "sense"
       ELSE IF total >= 1 THEN "mixed"
       ELSE "neutral"

\* _calculate_confidence, in thousandths: 0.9 is 900
CalculateConfidence(flags, text) ==
    LET structural == Len(SelectSeq(flags, LAMBDA f : f.category = "structural"))
        markers == Len(SelectSeq(flags, LAMBDA f : f.category = "marker"))
        unique_tiers == Cardinality({flags[i].pit_tier : i \in DOMAIN flags})
        base == 500 + Min(structural * 120, 360) + Min(markers * 30, 90)
                    + Min(unique_tiers * 50, 100)
    IN IF flags = <<>>
       THEN (IF text.len > 100 THEN 900 ELSE 600)
       ELSE Min(base, 950)

\* frozen_core.evaluate(text, domain, external_patterns)
Evaluate(text, domain, external_patterns) ==
    LET structural == SelectSeq(text.flags, LAMBDA f : f.category = "structural")
        markers == SelectSeq(text.flags, LAMBDA f : f.category = "marker")
        flags == structural \o ExternalFlags(text, external_patterns) \o markers
    IN [flags |-> flags, pit_tier_active |-> DominantTier(flags),
        knowledge_type |-> ClassifyKnowledge(flags),
        confidence |-> CalculateConfidence(flags, text)]

RECURSIVE Join(_)
\* "_".join(parts)
Join(parts) ==
    IF parts = <<>> THEN ""
    ELSE IF Len(parts) = 1 THEN parts[1]
    ELSE parts[1] \o "_" \o Join(Tail(parts))

(***************************************************************************)
(* The scan orchestrator (biasclear/detector.py).                          *)
(***************************************************************************)
\* str.lower() on the strings of the model
Lower(str) ==
    CASE str = "HIGH" -> "high"
      [] str = "Studies show" -> "studies show"
      [] str = "NOVEL_FRAME" -> "novel_frame"
      [] str = "CONSENSUS_AS_EVIDENCE" -> "consensus_as_evidence"
      [] str = "SK_EVERYONE_AGREES" -> "sk_everyone_agrees"
      [] str = "Novel_Frame" -> "novel_frame"
      [] str = "OTHER_FRAME" -> "other_frame"
      [] str = "Extreme" -> "extreme"
      [] OTHER -> str

\* str.strip(), on the strings that occur
Strip(str) ==
    CASE str = " NOVEL_FRAME " -> "NOVEL_FRAME"
      [] str = "  " -> ""
      [] OTHER -> str

\* a faulty tier normalisation: the tier is kept as parsed
ClampTierNone(pit_tier) == pit_tier

\* max(1, min(3, pit_tier))
ClampTier(pit_tier) == Max(1, Min(3, pit_tier))

\* int(pit_tier) with its except branch: a flag holds a JSON number under
\* pit_tier, and any other JSON value (a string, null) under pit_tier_text
IntTier(f) ==
    IF "pit_tier_text" \in DOMAIN f
    THEN IF IsInt(f.pit_tier_text) THEN ParseInt(f.pit_tier_text) ELSE 2
    ELSE DictGet(f, "pit_tier", 2)

RECURSIVE ExtractLoop(_, _, _)
\* the loop of _extract_ai_flags over the raw flags; an element that is not
\* a JSON object is held as a record with the one key not_a_dict
ExtractLoop(raw_flags, seen_ids, ai_flags) ==
    IF raw_flags = <<>> THEN ai_flags
    ELSE LET f == Head(raw_flags)
             pattern_id == Strip(DictGet(f, "pattern_id", ""))
             matched_text == Strip(DictGet(f, "matched_text", ""))
             sev == Lower(DictGet(f, "severity", "moderate"))
             severity == IF sev \in Severities THEN sev ELSE "moderate"
             pit_tier == ClampTier(IntTier(f))
         IN IF "not_a_dict" \in DOMAIN f
            THEN ExtractLoop(Tail(raw_flags), seen_ids, ai_flags)
            ELSE IF pattern_id = "" \/ matched_text = ""
            THEN ExtractLoop(Tail(raw_flags), seen_ids, ai_flags)
            ELSE IF Lower(pattern_id) \in seen_ids
            THEN ExtractLoop(Tail(raw_flags), seen_ids, ai_flags)
            ELSE ExtractLoop(Tail(raw_flags), seen_ids \cup {Lower(pattern_id)},
                     Append(ai_flags,
                         [category |-> DictGet(f, "category", "structural"),
                          pattern_id |-> pattern_id, matched_text |-> matched_text,
                          pit_tier |-> pit_tier,
                          severity |-> severity, source |-> "ai"]))

\* _extract_ai_flags(deep_result, local_flag_ids)
ExtractAiFlags(deep_result, local_flag_ids) ==
    IF ~Truthy(deep_result) THEN <<>>
    ELSE ExtractLoop(DictGet(deep_result, "flags", <<>>),
                     {Lower(local_flag_ids[i]) : i \in DOMAIN local_flag_ids}, <<>>)

\* _build_result: the unified result dict (of its keys, those the handlers,
\* the audit data and the proposer read)
BuildResult(text, core_eval, truth_score, scan_mode, deep_result, impact_projection, ai_flags, score_breakdown) ==
    LET all_severities ==
            {core_eval.flags[i].severity : i \in DOMAIN core_eval.flags}
                \cup {ai_flags[i].severity : i \in DOMAIN ai_flags}
                \cup (IF Truthy(deep_result) /\ DictGet(deep_result, "severity", "") # ""
                      THEN {deep_result.severity} ELSE {})
        severity ==
            CASE "critical" \in all_severities -> "critical"
              [] "high" \in all_severities -> "high"
              [] "moderate" \in all_severities -> "moderate"
              [] "low" \in all_severities -> "low"
              [] OTHER -> "none"
        local_tier == IF core_eval.pit_tier_active = <<>> THEN "none"
                      ELSE Join(core_eval.pit_tier_active)
        pit_tier == IF Truthy(deep_result) /\ DictGet(deep_result, "pit_tier", <<>>) # <<>>
                    THEN Join(deep_result.pit_tier) ELSE local_tier
        core_flags == [i \in DOMAIN core_eval.flags |->
                          [category |-> core_eval.flags[i].category,
                           pattern_id |-> core_eval.flags[i].pattern_id,
                           pit_tier |-> core_eval.flags[i].pit_tier,
                           severity |-> core_eval.flags[i].severity,
                           source |-> "core"]]
        merged_flags == core_flags \o ai_flags
        \* a confidence of 0 is falsy, like a missing one
        confidence == IF Truthy(deep_result) /\ DictGet(deep_result, "confidence", 0) # 0
                      THEN Max(core_eval.confidence, deep_result.confidence)
                      ELSE core_eval.confidence
        knowledge_type ==
            IF Truthy(deep_result) /\ DictGet(deep_result, "knowledge_type", "") # ""
            THEN deep_result.knowledge_type
            ELSE core_eval.knowledge_type
    IN [text |-> text.text,
        truth_score |-> truth_score,
        knowledge_type |-> knowledge_type,
        confidence |-> confidence,
        bias_detected |-> (Len(merged_flags) > 0
                              \/ (IF Truthy(deep_result)
                                  THEN DictGet(deep_result, "bias_detected", FALSE)
                                  ELSE FALSE)),
        pit_tier |-> pit_tier,
        severity |-> severity,
        flags |-> merged_flags,
        impact_projection |-> Truthy(impact_projection),
        scan_mode |-> scan_mode,
        source |-> IF scan_mode = "local" THEN "local"
                   ELSE IF Truthy(deep_result) THEN "gemini+local"
                   ELSE "local_fallback",
        core_version |-> CORE_VERSION,
        score_breakdown |-> score_breakdown]

\* a faulty scan_local: evaluates with every pattern of the ring's table,
\* staged ones included, instead of the patterns it is given
scan_localWithStaging(text, domain, external_patterns) ==
    LET core_eval == Evaluate(text, domain, ring)
        scored == calculate_truth_score(core_eval, NoDeep, <<>>)
    IN BuildResult(text, core_eval, scored.score, "local", NoDeep, NoDeep, <<>>,
                   scored.breakdown)

\* scan_local(text, domain, external_patterns)
scan_local(text, domain, external_patterns) ==
    LET core_eval == Evaluate(text, domain, external_patterns)
        scored == calculate_truth_score(core_eval, NoDeep, <<>>)
    IN BuildResult(text, core_eval, scored.score, "local", NoDeep, NoDeep, <<>>,
                   scored.breakdown)

(***************************************************************************)
(* One request is handled in one step.  While it runs, the handler's view  *)
(* of the stores is a record w = [rows, seq, ring, breaker, trace]; trace  *)
(* lists, in order, the LLM calls, ring.propose calls and audit appends    *)
(* made for the request.                                                   *)
(***************************************************************************)
\* audit_chain.log(event_type, data, core_version), run to completion
AuditLog(w, event_type, data, core_version) ==
    LET prev_hash == GetPrevHash(w.rows)
        timestamp == IsoFormat(now)
        data_str == JsonDumps(data)
        new_hash == Sha256(LogChainInput(prev_hash, event_type, data_str, timestamp,
                                         core_version))
        id == NewId(w.rows, w.seq)
        row == [id |-> id, prev_hash |-> prev_hash, hash |-> new_hash,
                event_type |-> event_type, data |-> data_str,
                timestamp |-> timestamp, core_version |-> core_version]
    IN [w EXCEPT !.rows = InsertRow(@, row),
                 !.seq = id,
                 !.trace = Append(@, [ev |-> "audit", event_type |-> event_type,
                                      data |-> data, hash |-> new_hash])]

\* the hash returned by the audit append that ended the trace
LastHash(w) == w.trace[Len(w.trace)].hash

(***************************************************************************)
(* The learning ring (app/patterns/learned.py).                            *)
(***************************************************************************)
\* LearningRing._audit with no hook installed: nothing is logged
RingAuditUnwired(w, event_type, data) == w

\* LearningRing._audit with the hook lifespan installs: audit_chain.log with
\* its default core_version
RingAudit(w, event_type, data) == AuditLog(w, event_type, data, "1.0.0")

\* the position of pattern_id in the table, 0 if absent
RingIndex(rg, pattern_id) ==
    IF \E i \in DOMAIN rg : rg[i].pattern_id = pattern_id
    THEN CHOOSE i \in DOMAIN rg : rg[i].pattern_id = pattern_id
    ELSE 0

\* LearningRing._activate
Activate(w, pattern_id) ==
    LET i == RingIndex(w.ring, pattern_id)
        w1 == [w EXCEPT !.ring[i].status = "active",
                        !.ring[i].activated_at = IsoFormat(now)]
    IN [w |-> RingAudit(w1, "pattern_activated",
                        PyDict(<< <<"pattern_id", PyStr(pattern_id)>>,
                                  <<"activated_at", PyStr(IsoFormat(now))>> >>)),
        result |-> [accepted |-> TRUE, action |-> "activated"]]

\* the auto-activation test of propose
ShouldActivateAnyStatus(status, new_confirmations) ==
    new_confirmations >= ringThreshold

\* the auto-activation test of propose, met only past the threshold
ShouldActivateLate(status, new_confirmations) ==
    status = "staging" /\ new_confirmations > ringThreshold

\* the auto-activation test of propose (lines 174-177)
ShouldActivate(status, new_confirmations) ==
    status = "staging" /\ new_confirmations >= ringThreshold

\* LearningRing.propose
RingPropose(w0, pattern_id, name, pit_tier, severity, principle, regex, source_scan_hash) ==
    LET w == [w0 EXCEPT !.trace = Append(@, [ev |-> "propose",
                                             pattern_id |-> pattern_id,
                                             source_scan_hash |-> source_scan_hash])]
        i == RingIndex(w.ring, pattern_id)
    IN IF pit_tier \notin Tiers
       THEN [w |-> w, result |-> [accepted |-> FALSE, action |-> "rejected"]]
       ELSE IF severity \notin Severities
       THEN [w |-> w, result |-> [accepted |-> FALSE, action |-> "rejected"]]
       ELSE IF i # 0
       THEN LET new_confirmations == w.ring[i].confirmations + 1
                w1 == [w EXCEPT !.ring[i].confirmations = new_confirmations]
                w2 == RingAudit(w1, "pattern_confirmed",
                          PyDict(<< <<"pattern_id", PyStr(pattern_id)>>,
                                    <<"confirmations", PyInt(new_confirmations)>>,
                                    <<"source_scan_hash", PyStr(source_scan_hash)>> >>))
            IN IF ShouldActivate(w.ring[i].status, new_confirmations)
               THEN Activate(w2, pattern_id)
               ELSE [w |-> w2, result |-> [accepted |-> TRUE, action |-> "confirmed"]]
       ELSE LET row == [pattern_id |-> pattern_id, name |-> name,
                        pit_tier |-> pit_tier, severity |-> severity,
                        principle |-> principle, regex |-> regex,
                        status |-> "staging", confirmations |-> 1,
                        false_positives |-> 0, total_evaluations |-> 0,
                        proposed_at |-> IsoFormat(now), activated_at |-> "",
                        deactivated_at |-> "",
                        source_scan_hash |-> source_scan_hash]
                w1 == [w EXCEPT !.ring = Append(@, row)]
            IN [w |-> RingAudit(w1, "pattern_proposed",
                          PyDict(<< <<"pattern_id", PyStr(pattern_id)>>,
                                    <<"name", PyStr(name)>>,
                                    <<"pit_tier", PyInt(pit_tier)>>,
                                    <<"severity", PyStr(severity)>>,
                                    <<"source_scan_hash", PyStr(source_scan_hash)>> >>)),
                result |-> [accepted |-> TRUE, action |-> "proposed"]]

\* LearningRing.get_active_patterns: the active rows as StructuralPattern
\* objects, without the governance columns
GetActivePatterns(rg) ==
    LET active == SelectSeq(rg, LAMBDA p : p.status = "active")
    IN [i \in DOMAIN active |->
           [pattern_id |-> active[i].pattern_id, name |-> active[i].name,
            pit_tier |-> active[i].pit_tier, severity |-> active[i].severity,
            principle |-> active[i].principle, regex |-> active[i].regex]]

(***************************************************************************)
(* The pattern proposer (biasclear/patterns/proposer.py).                  *)
(***************************************************************************)
\* _parse_tier of a label given as its split("_") pieces
ParseTier(parts) ==
    IF parts = <<"none">> THEN 0
    ELSE IF Len(parts) < 2 THEN 0
    ELSE IF ~IsInt(parts[2]) THEN 0
    ELSE IF ParseInt(parts[2]) \in Tiers THEN ParseInt(parts[2])
    ELSE 0

\* the regexes of the model's LLM answers that _validate_regex accepts
ValidRegexes == {"\\bplainly obvious\\b", "\\bclearly\\b"}
ValidateRegex(regex) == regex \in ValidRegexes

\* hashlib.md5(regex).hexdigest()[:6], taken as injective on the model's regexes
Md5Prefix(regex) == "md5(" \o regex \o ")"

\* re.sub(r"[^A-Z0-9_]", "", base_id.upper()) on the base ids of the model
CleanId(base_id) ==
    CASE base_id = "novel_frame" -> "NOVEL_FRAME"
      [] base_id = "Obviousness-Framing" -> "OBVIOUSNESSFRAMING"
      [] base_id = "???" -> ""
      [] OTHER -> base_id

\* _generate_pattern_id; the base ids of the model's answers are already clean
GeneratePatternId(base_id, regex) ==
    LET clean_id == CleanId(base_id)
    IN "L_" \o (IF clean_id = "" THEN "LEARNED" ELSE clean_id) \o "_" \o Md5Prefix(regex)

\* return [result]
ProposalList(r) == [w |-> r.w, proposals |-> <<r.result>>]

\* extract_and_propose from the answer g of the pattern-extraction call on:
\* validation of the answer, then ring.propose
ProposeFromAnswer(w, g, scan_audit_hash) ==
    LET w1 == [w EXCEPT !.breaker = g.breaker,
                        !.trace = Append(@, [ev |-> "llm", call |-> "pattern",
                                             exc |-> g.exc])]
        pattern_spec == g.value
        regex == DictGet(g.value, "regex", "")
        sev == DictGet(g.value, "severity", "moderate")
        pr == DictGet(g.value, "principle", "Truth")
    IN IF g.exc # "none"
       THEN [w |-> w1, proposals |-> <<>>]
       ELSE IF DictGet(pattern_spec, "pattern_id", "") = ""
       THEN [w |-> w1, proposals |-> <<>>]
       ELSE IF ~ValidateRegex(regex)
       THEN [w |-> w1, proposals |-> <<>>]
       ELSE IF DictGet(pattern_spec, "pit_tier", 0) \notin Tiers
       THEN [w |-> w1, proposals |-> <<>>]
       ELSE ProposalList(
                RingPropose(w1,
                    GeneratePatternId(pattern_spec.pattern_id, regex),
                    DictGet(pattern_spec, "name", "Unnamed Pattern"),
                    pattern_spec.pit_tier,
                    IF sev \in Severities THEN sev ELSE "moderate",
                    IF pr \in {"Truth", "Justice", "Clarity", "Agency", "Identity"}
                    THEN pr ELSE "Truth",
                    regex, scan_audit_hash))

\* PatternProposer.extract_and_propose
ExtractAndPropose(w, text, local_flags, deep_result, outcome, scan_audit_hash) ==
    LET bias_types == DictGet(deep_result, "bias_types", <<>>)
        novel_bias == {bias_types[i] : i \in DOMAIN bias_types} \ {"none"}
        pit_tier_raw == DictGet(deep_result, "pit_tier", <<"none">>)
    IN IF ~DictGet(deep_result, "bias_detected", FALSE)
       THEN [w |-> w, proposals |-> <<>>]
       ELSE IF DictGet(deep_result, "severity", "") \in {"none", "low"}
       THEN [w |-> w, proposals |-> <<>>]
       ELSE IF Len(local_flags) >= 3
       THEN [w |-> w, proposals |-> <<>>]
       ELSE IF novel_bias = {}
       THEN [w |-> w, proposals |-> <<>>]
       ELSE IF ParseTier(pit_tier_raw) = 0
       THEN [w |-> w, proposals |-> <<>>]
       ELSE ProposeFromAnswer(w, generate_json(w.breaker, mono, outcome),
                              scan_audit_hash)

\* result["learning_proposals"] = proposals; return result
WithProposals(result, p) ==
    [exc |-> "none", w |-> p.w,
     result |-> [learning_proposals |-> p.proposals] @@ result]

\* the self-learning loop that ends scan_deep and scan_full; learning_ring
\* and audit_chain are always passed by the handler
ProposeNovelPatterns(w, text, deep_result, result, op) ==
    IF Truthy(deep_result)
    THEN WithProposals(result,
             ExtractAndPropose(w, text, result.flags, deep_result, op,
                               DictGet(result, "audit_hash", "unknown")))
    ELSE [exc |-> "none", w |-> w,
          result |-> [learning_proposals |-> <<>>] @@ result]

\* scan_deep after the scoring
DeepBuild(w, text, core_eval, deep_result, ai_flags, scored, op) ==
    ProposeNovelPatterns(w, text, deep_result,
        BuildResult(text, core_eval, scored.score, "deep", deep_result, NoDeep,
                    ai_flags, scored.breakdown),
        op)

\* scan_deep after the evaluation
DeepScore(w, text, core_eval, deep_result, ai_flags, op) ==
    DeepBuild(w, text, core_eval, deep_result, ai_flags,
              calculate_truth_score(core_eval, deep_result, ai_flags), op)

\* scan_deep from the answer g of the deep-analysis call on
DeepAfterLlm(w, text, domain, g, op) ==
    LET w1 == [w EXCEPT !.breaker = g.breaker,
                        !.trace = Append(@, [ev |-> "llm", call |-> "deep_analysis",
                                             exc |-> g.exc])]
    IN IF g.exc # "none"
       THEN [exc |-> "none", w |-> w1,
             result |-> [text |-> text.text, error |-> g.exc,
                         scan_mode |-> "deep", source |-> "error"]]
       ELSE DeepScore(w1, text, Evaluate(text, domain, <<>>), g.value,
                      ExtractAiFlags(g.value, <<>>), op)

\* scan_deep(text, llm, domain, learning_ring, audit_chain)
scan_deep(w, text, domain, od, op) ==
    DeepAfterLlm(w, text, domain, generate_json(w.breaker, mono, od), op)

\* scan_full, phase 5: build the result, then the self-learning loop
FullBuild(w, text, core_eval, deep_result, ai_flags, scored, impact, op) ==
    ProposeNovelPatterns(w, text, deep_result,
        BuildResult(text, core_eval, scored.score, "full", deep_result, impact,
                    ai_flags, scored.breakdown),
        op)

\* scan_full, phase 4, from the answer gi of the impact call on
FullAfterImpact(w, text, core_eval, deep_result, ai_flags, scored, gi, op) ==
    FullBuild([w EXCEPT !.breaker = gi.breaker,
                        !.trace = Append(@, [ev |-> "llm", call |-> "impact",
                                             exc |-> gi.exc])],
              text, core_eval, deep_result, ai_flags, scored,
              IF gi.exc = "none" THEN gi.value ELSE NoDeep, op)

\* scan_full, phase 4: impact projection, only if truth_score < 80
FullImpact(w, text, core_eval, deep_result, ai_flags, scored, oi, op) ==
    IF scored.score < 80 /\ Truthy(deep_result)
    THEN FullAfterImpact(w, text, core_eval, deep_result, ai_flags, scored,
                         generate_json(w.breaker, mono, oi), op)
    ELSE FullBuild(w, text, core_eval, deep_result, ai_flags, scored, NoDeep, op)

\* scan_full, phase 3: score
FullScore(w, text, core_eval, deep_result, ai_flags, oi, op) ==
    FullImpact(w, text, core_eval, deep_result, ai_flags,
               calculate_truth_score(core_eval, deep_result, ai_flags), oi, op)

\* scan_full, phase 2, from the answer g of the deep-analysis call on: a
\* failed call leaves deep_result None
FullAfterLlm(w, text, core_eval, g, oi, op) ==
    LET deep_result == IF g.exc = "none" THEN g.value ELSE NoDeep
        local_flag_ids == [i \in DOMAIN core_eval.flags |-> core_eval.flags[i].pattern_id]
    IN FullScore([w EXCEPT !.breaker = g.breaker,
                           !.trace = Append(@, [ev |-> "llm", call |-> "deep_analysis",
                                                exc |-> g.exc])],
                 text, core_eval, deep_result,
                 ExtractAiFlags(deep_result, local_flag_ids), oi, op)

\* scan_full(text, llm, domain, external_patterns, learning_ring, audit_chain)
scan_full(w, text, domain, external_patterns, od, oi, op) ==
    FullAfterLlm(w, text, Evaluate(text, domain, external_patterns),
                 generate_json(w.breaker, mono, od), oi, op)

(***************************************************************************)
(* The scan cache (biasclear/cache.py): a dict in insertion order, as a    *)
(* sequence of [key, ts, result].  The hit and miss counters are left out. *)
(***************************************************************************)
ttl_seconds == 3600
max_entries == 500

\* ScanCache._make_key
MakeKey(text, domain, mode, extra) ==
    Sha256(text \o "||" \o domain \o "||" \o mode \o "||" \o extra)

CacheIndex(c, key) ==
    IF \E i \in DOMAIN c : c[i].key = key
    THEN CHOOSE i \in DOMAIN c : c[i].key = key
    ELSE 0

\* the sequence c without its i-th element
RemoveAt(c, i) == SubSeq(c, 1, i - 1) \o SubSeq(c, i + 1, Len(c))

\* ScanCache.get: the cache afterwards, whether it hit, and the value returned
CacheGet(c, key, t) ==
    LET i == CacheIndex(c, key)
    IN IF i = 0 THEN [cache |-> c, hit |-> FALSE, value |-> NoDeep]
       ELSE IF t - c[i].ts > ttl_seconds
       THEN [cache |-> RemoveAt(c, i), hit |-> FALSE, value |-> NoDeep]
       ELSE [cache |-> c, hit |-> TRUE, value |-> [_cached |-> TRUE] @@ c[i].result]

\* ScanCache.put: evict the oldest entry at capacity, then store
CachePut(c, key, result, t) ==
    LET oldest == CHOOSE i \in DOMAIN c :
                      /\ \A j \in DOMAIN c : c[i].ts <= c[j].ts
                      /\ \A j \in DOMAIN c : j < i => c[j].ts > c[i].ts
        c1 == IF Len(c) >= max_entries THEN RemoveAt(c, oldest) ELSE c
        i == CacheIndex(c1, key)
        entry == [key |-> key, ts |-> t, result |-> result]
    IN IF i = 0 THEN Append(c1, entry) ELSE [c1 EXCEPT ![i] = entry]

(***************************************************************************)
(* POST /scan (api/main.py, scan_text).  The rate limiter admits the       *)
(* request and authentication is off, so key_id is None.                   *)
(***************************************************************************)
\* the data dict of the scan's audit entry
ScanAuditData(result, domain) ==
    PyDict(<< <<"truth_score", PyInt(result.truth_score)>>,
              <<"bias_detected", PyBool(result.bias_detected)>>,
              <<"severity", PyStr(result.severity)>>,
              <<"pit_tier", PyStr(result.pit_tier)>>,
              <<"domain", PyStr(domain)>>,
              <<"flags_count", PyInt(Len(result.flags))>>,
              <<"key_id", PyNone>> >>)

\* the except CircuitOpenError branch: a local scan, marked degraded, capped at 85
LocalFallback(text, domain, learned, mode) ==
    LET result == scan_local(text, domain, learned)
    IN [scan_mode |-> "local (fallback from " \o mode \o ")",
        _degraded |-> TRUE,
        truth_score |-> IF result.truth_score > 85 THEN 85 ELSE result.truth_score]
           @@ result

\* the texts requests carry: what they say, the flags the frozen core raises
\* on them, and the learned-pattern regexes that match them
TextClean ==
    [text |-> "The meeting is scheduled for 3pm Tuesday.", len |-> 41,
     flags |-> <<>>, matches |-> {}]
TextConsensus ==
    [text |-> "Everyone agrees. It is plainly obvious.", len |-> 39,
     flags |-> <<[category |-> "structural", pattern_id |-> "CONSENSUS_AS_EVIDENCE",
                  pit_tier |-> 1, severity |-> "high"],
                 [category |-> "marker", pattern_id |-> "SK_EVERYONE_AGREES",
                  pit_tier |-> 1, severity |-> "low"]>>,
     matches |-> {"\\bplainly obvious\\b"}]
Texts == {TextClean, TextConsensus}
Domains == {"general"}

\* the JSON objects the LLM answers the deep-analysis prompt with; the prompt
\* asks for a confidence between 0.0 and 1.0, held here in thousandths
DeepClean ==
    [knowledge_type |-> "neutral", bias_detected |-> FALSE, severity |-> "none",
     bias_types |-> <<"none">>, pit_tier |-> <<"none">>, confidence |-> 1000,
     flags |-> <<>>]
DeepBiased ==
    [knowledge_type |-> "sense", bias_detected |-> TRUE, severity |-> "high",
     bias_types |-> <<"framing">>, pit_tier |-> <<"tier", "2", "psychological">>,
     confidence |-> 800,
     flags |-> <<[pattern_id |-> "NOVEL_FRAME", matched_text |-> "plainly obvious",
                  severity |-> "HIGH", pit_tier |-> 2]>>]
DeepSubtle ==
    [knowledge_type |-> "mixed", bias_detected |-> FALSE, severity |-> "none",
     bias_types |-> <<"framing_bias">>, pit_tier |-> <<"none">>, confidence |-> 700,
     flags |-> <<>>]
Failure == [kind |-> "error"]
DeepOutcomes == {Failure, [kind |-> "bad_json"],
                 [kind |-> "json", value |-> DeepClean],
                 [kind |-> "json", value |-> DeepBiased],
                 [kind |-> "json", value |-> DeepSubtle]}
ImpactOutcomes == {Failure,
                   [kind |-> "json",
                    value |-> [path_a_title |-> "Unchallenged", path_b_title |-> "Corrected"]]}
PatternOutcomes ==
    {Failure,
     [kind |-> "json",
      value |-> [pattern_id |-> "NOVEL_FRAME", name |-> "Obviousness framing",
                 regex |-> "\\bplainly obvious\\b", pit_tier |-> 2,
                 severity |-> "high", principle |-> "Clarity"]],
     [kind |-> "json",
      value |-> [pattern_id |-> "NOVEL_FRAME", name |-> "Obviousness framing",
                 regex |-> "\\bplainly obvious\\b", pit_tier |-> 4,
                 severity |-> "high", principle |-> "Clarity"]]}

\* scan_text from the audit append on: audit_hash, cache put, return
ScanReturn(req, key, got, result, logged) ==
    [resp |-> [status |-> 200, request |-> req,
               result |-> [audit_hash |-> LastHash(logged)] @@ result,
               trace |-> logged.trace],
     cache |-> CachePut(got.cache, key, [audit_hash |-> LastHash(logged)] @@ result,
                        mono),
     rows |-> logged.rows, seq |-> logged.seq, ring |-> logged.ring,
     breaker |-> logged.breaker]

\* scan_text after the scan: HTTP 502 for an error result, else the audit append
ScanAudit(req, key, got, w, result) ==
    IF "error" \in DOMAIN result /\ ~DictGet(result, "bias_detected", FALSE)
    THEN [resp |-> [status |-> 502, request |-> req, result |-> result,
                    trace |-> w.trace],
          cache |-> got.cache, rows |-> w.rows, seq |-> w.seq, ring |-> w.ring,
          breaker |-> w.breaker]
    ELSE ScanReturn(req, key, got, result,
                    AuditLog(w, "scan_" \o req.mode,
                             ScanAuditData(result, req.domain), CORE_VERSION))

\* the try block of scan_text: the scan of the requested mode
ScanDispatch(req, learned, od, oi, op) ==
    LET w0 == [rows |-> rows, seq |-> seq, ring |-> ring, breaker |-> breaker,
               trace |-> <<>>]
    IN CASE req.mode = "local" ->
                [exc |-> "none", w |-> w0,
                 result |-> scan_local(req.text, req.domain, learned)]
         [] req.mode = "deep" -> scan_deep(w0, req.text, req.domain, od, op)
         [] req.mode = "full" ->
                scan_full(w0, req.text, req.domain, learned, od, oi, op)

\* scan_text after the try block: except CircuitOpenError falls back to local
ScanExcept(req, learned, key, got, scanned) ==
    ScanAudit(req, key, got, scanned.w,
              IF scanned.exc = "CircuitOpenError"
              THEN LocalFallback(req.text, req.domain, learned, req.mode)
              ELSE scanned.result)

\* scan_text after the cache lookup: a hit is returned as it is
ScanLookup(req, learned, key, got, od, oi, op) ==
    IF got.hit
    THEN [resp |-> [status |-> 200, request |-> req, result |-> got.value,
                    trace |-> <<>>],
          cache |-> got.cache, rows |-> rows, seq |-> seq, ring |-> ring,
          breaker |-> breaker]
    ELSE ScanExcept(req, learned, key, got, ScanDispatch(req, learned, od, oi, op))

\* scan_text with the active learned patterns read
ScanKeyed(req, learned, key, od, oi, op) ==
    ScanLookup(req, learned, key, CacheGet(cache, key, mono), od, oi, op)

\* scan_text: the response and the stores after one request
scan_text(req, od, oi, op) ==
    ScanKeyed(req, GetActivePatterns(ring),
              MakeKey(req.text.text, req.domain, req.mode,
                      IntStr(Len(GetActivePatterns(ring)))),
              od, oi, op)

\* one POST /scan request, handled from the rate-limit check to the return
ScanText(req, od, oi, op) ==
    /\ served < MaxScans
    /\ served' = served + 1
    /\ \E out \in {scan_text(req, od, oi, op)} :
           /\ resp' = [learned |-> GetActivePatterns(ring)] @@ out.resp
           /\ cache' = out.cache
           /\ rows' = out.rows
           /\ seq' = out.seq
           /\ ring' = out.ring
           /\ breaker' = out.breaker
    /\ UNCHANGED <<lockHolder, pc, frame, ret, now, tamper, scoreVars, evalVars, corrVars, unitVars, mono, seen>>

\* time passes on the monotonic clock: long enough for the breaker to
\* recover, or long enough for a cache entry to expire
MonoAdvance(d) ==
    /\ mono < MaxMono
    /\ mono' = mono + d
    /\ UNCHANGED <<auditVars, scoreVars, evalVars, corrVars, unitVars, cache, ring, breaker, resp, served, seen>>

\* a request in local mode: no LLM call is made
ScanLocalMode(text, domain) ==
    ScanText([text |-> text, domain |-> domain, mode |-> "local"],
             Failure, Failure, Failure)

\* a request in deep mode: the deep-analysis call and the proposer's call
ScanDeepMode(text, domain, od, op) ==
    ScanText([text |-> text, domain |-> domain, mode |-> "deep"], od, Failure, op)

\* a request in full mode: deep-analysis, impact and proposer's calls
ScanFullMode(text, domain, od, oi, op) ==
    ScanText([text |-> text, domain |-> domain, mode |-> "full"], od, oi, op)

NextScan ==
    \/ \E text \in Texts, domain \in Domains : ScanLocalMode(text, domain)
    \/ \E text \in Texts, domain \in Domains, od \in DeepOutcomes,
          op \in PatternOutcomes : ScanDeepMode(text, domain, od, op)
    \/ \E text \in Texts, domain \in Domains, od \in DeepOutcomes,
          oi \in ImpactOutcomes, op \in PatternOutcomes :
              ScanFullMode(text, domain, od, oi, op)
    \/ \E d \in {CB_RECOVERY_TIMEOUT, ttl_seconds + 1} : MonoAdvance(d)

\* requests to POST /scan, one at a time, against fresh stores; the wall
\* clock stands still, the monotonic clock advances
SpecScan == Init /\ [][NextScan]_vars

(***************************************************************************)
(* The learning ring's operations called one at a time (propose and        *)
(* report_false_positive hold LearningRing._lock from their SELECT to      *)
(* their commit; record_evaluation is one UPDATE), and scan_local called   *)
(* with the patterns active at that moment.                                *)
(***************************************************************************)
\* LearningRing.fp_limit, 0.15, in hundredths
fp_limit == 15

\* fps / total as it is written into the audit data
FpRate(fps, total) == PyStr(IntStr(fps) \o "/" \o IntStr(total))

\* the FP-rate test without the status: any pattern over the limit
ShouldDeactivateAnyStatus(fps, total, status) ==
    total > 0 /\ fps * 100 > fp_limit * total

\* the FP-rate test of report_false_positive (line 262)
ShouldDeactivate(fps, total, status) ==
    total > 0 /\ fps * 100 > fp_limit * total /\ status = "active"

\* LearningRing.report_false_positive
RingReportFalsePositive(w, pattern_id) ==
    LET i == RingIndex(w.ring, pattern_id)
        fps == w.ring[i].false_positives + 1
        total == w.ring[i].total_evaluations
        status == w.ring[i].status
        w1 == [w EXCEPT !.ring[i].false_positives = fps]
        w2 == [w1 EXCEPT !.ring[i].status = "deactivated",
                         !.ring[i].deactivated_at = IsoFormat(now)]
    IN IF i = 0
       THEN [w |-> w, result |-> [error |-> "not found"]]
       ELSE IF ShouldDeactivate(fps, total, status)
       THEN [w |-> RingAudit(w2, "pattern_deactivated",
                       PyDict(<< <<"pattern_id", PyStr(pattern_id)>>,
                                 <<"reason", PyStr("false_positive_threshold_exceeded")>>,
                                 <<"fp_rate", FpRate(fps, total)>>,
                                 <<"deactivated_at", PyStr(IsoFormat(now))>> >>)),
             result |-> [action |-> "deactivated", pattern_id |-> pattern_id]]
       ELSE [w |-> w1, result |-> [action |-> "recorded", false_positives |-> fps]]

\* LearningRing.record_evaluation: the UPDATE touches no row of an unknown id
RingRecordEvaluation(rg, pattern_id) ==
    LET i == RingIndex(rg, pattern_id)
    IN IF i = 0 THEN rg
       ELSE [rg EXCEPT ![i].total_evaluations = @ + 1]

\* the pattern proposed to the ring
PatternA ==
    [pattern_id |-> GeneratePatternId("NOVEL_FRAME", "\\bplainly obvious\\b"),
     name |-> "Obviousness framing", pit_tier |-> 2, severity |-> "high",
     principle |-> "Clarity", regex |-> "\\bplainly obvious\\b"]
RingPatterns == {PatternA}

\* the arguments of propose: the pattern as it is, with a tier and with a
\* severity that do not exist, and with a principle that is not one of
\* PRINCIPLES
ProposeArgs ==
    {[p |-> p, pit_tier |-> p.pit_tier, severity |-> p.severity] : p \in RingPatterns}
        \cup {[p |-> PatternA, pit_tier |-> 4, severity |-> "high"],
              [p |-> PatternA, pit_tier |-> 2, severity |-> "extreme"],
              [p |-> [PatternA EXCEPT !.principle = "Fairness"],
               pit_tier |-> 2, severity |-> "high"]}

\* the scan_audit_hash callers hand to propose
SourceHash == Sha256("scan")

RECURSIVE RingTotal(_, _)
\* the sum of one counter over the table
RingTotal(rg, field) ==
    IF rg = <<>> THEN 0 ELSE Head(rg)[field] + RingTotal(Tail(rg), field)

\* the stores as one operation sees them
World == [rows |-> rows, seq |-> seq, ring |-> ring, breaker |-> breaker,
          trace |-> <<>>]

\* learning_ring.propose(...)
Propose(a) ==
    /\ RingTotal(ring, "confirmations") < MaxConfirmations
    /\ \E r \in {RingPropose(World, a.p.pattern_id, a.p.name, a.pit_tier, a.severity,
                             a.p.principle, a.p.regex, SourceHash)} :
           /\ ring' = r.w.ring
           /\ rows' = r.w.rows
           /\ seq' = r.w.seq
           /\ ret' = [thread |-> "t1", op |-> "propose",
                      value |-> [pattern_id |-> a.p.pattern_id, pit_tier |-> a.pit_tier,
                                 severity |-> a.severity, result |-> r.result,
                                 trace |-> r.w.trace]]
    /\ UNCHANGED <<lockHolder, pc, frame, now, tamper, scoreVars, evalVars, corrVars, unitVars, cache, mono, breaker,
                   resp, served, seen>>

\* learning_ring.report_false_positive(pattern_id)
ReportFalsePositive(pattern_id) ==
    /\ RingTotal(ring, "false_positives") < MaxFalsePositives
    /\ \E r \in {RingReportFalsePositive(World, pattern_id)} :
           /\ ring' = r.w.ring
           /\ rows' = r.w.rows
           /\ seq' = r.w.seq
           /\ ret' = [thread |-> "t1", op |-> "report_false_positive",
                      value |-> [pattern_id |-> pattern_id, result |-> r.result,
                                 trace |-> r.w.trace]]
    /\ UNCHANGED <<lockHolder, pc, frame, now, tamper, scoreVars, evalVars, corrVars, unitVars, cache, mono, breaker,
                   resp, served, seen>>

\* learning_ring.record_evaluation(pattern_id)
RecordEvaluation(pattern_id) ==
    /\ RingTotal(ring, "total_evaluations") < MaxEvaluations
    /\ ring' = RingRecordEvaluation(ring, pattern_id)
    /\ ret' = [thread |-> "t1", op |-> "record_evaluation",
               value |-> [pattern_id |-> pattern_id, trace |-> <<>>]]
    /\ UNCHANGED <<rows, seq, lockHolder, pc, frame, now, tamper, scoreVars, evalVars, corrVars, unitVars, cache, mono,
                   breaker, resp, served, seen>>

\* scan_local(text, domain, learning_ring.get_active_patterns()); the call
\* is kept for later comparison when keep is set and none is kept yet
LocalScan(text, domain, keep) ==
    /\ \E call \in {[op |-> "scan_local", text |-> text.text, domain |-> domain,
                     learned |-> GetActivePatterns(ring),
                     audited |-> Cardinality(rows),
                     result |-> scan_local(text, domain, GetActivePatterns(ring))]} :
           /\ ret' = [thread |-> "t1", op |-> "scan_local", value |-> call]
           /\ seen' = IF keep /\ seen = NoSeen THEN call ELSE seen
    /\ UNCHANGED <<rows, seq, lockHolder, pc, frame, now, tamper, scoreVars, evalVars, corrVars, unitVars, cache, mono,
                   ring, breaker, resp, served>>

NextRing ==
    \/ \E a \in ProposeArgs : Propose(a)
    \/ \E p \in RingPatterns : ReportFalsePositive(p.pattern_id)
    \/ \E p \in RingPatterns : RecordEvaluation(p.pattern_id)
    \/ \E text \in Texts, domain \in Domains, keep \in BOOLEAN :
           LocalScan(text, domain, keep)

\* ring operations and local scans, one at a time, against fresh stores
SpecRing == Init /\ [][NextRing]_vars

(***************************************************************************)
(* POST /scan against stores an earlier run of the service left behind:    *)
(* both tables are SQLite files that survive a restart.  In that run the   *)
(* pattern was proposed until it became active.                            *)
(***************************************************************************)
RECURSIVE Seeded(_)
\* the stores after n accepted proposals of the pattern
Seeded(n) ==
    IF n = 0
    THEN [rows |-> {}, seq |-> 0, ring |-> <<>>, breaker |-> BreakerClosed,
          trace |-> <<>>]
    ELSE RingPropose(Seeded(n - 1), PatternA.pattern_id, PatternA.name,
                     PatternA.pit_tier, PatternA.severity, PatternA.principle,
                     PatternA.regex, SourceHash).w

InitLearned ==
    /\ now = 0
    /\ ringThreshold = activation_threshold
    /\ rows = Seeded(activation_threshold).rows
    /\ seq = Seeded(activation_threshold).seq
    /\ lockHolder = "none"
    /\ pc = [t \in Threads |-> "idle"]
    /\ frame = [t \in Threads |-> NoFrame]
    /\ ret = NoRet
    /\ tamper = NoTamper
    /\ scoreIn = NoScoreIn
    /\ scoreOut = NoScoreOut
    /\ evalIn = NoEvalIn
    /\ evalOut = NoEvalOut
    /\ corrIn = NoCorrIn
    /\ llmIn = NoLlmIn
    /\ llmOut = NoLlmOut
    /\ aiIn = NoAiIn
    /\ aiOut = NoAiOut
    /\ history = <<>>
    /\ windows = <<>>
    /\ corrOut = NoCorrOut
    /\ cache = <<>>
    /\ mono = 0
    /\ ring = Seeded(activation_threshold).ring
    /\ breaker = BreakerClosed
    /\ resp = NoResp
    /\ served = 0
    /\ seen = NoSeen

\* requests to POST /scan, one at a time, with a learned pattern active
SpecLearned == InitLearned /\ [][NextScan]_vars

(***************************************************************************)
(* The proposer on its own: extract_and_propose called at the end of       *)
(* several deep scans whose LLM analysis found a bias the frozen core      *)
(* missed, with the pattern extraction answering a regex under one base    *)
(* id or another.                                                          *)
(***************************************************************************)
MaxExtractions == 4

\* the base ids the LLM attaches to a pattern
BaseIds == {"NOVEL_FRAME", "novel_frame", "Obviousness-Framing", "???"}

\* the LLM's answers to PATTERN_EXTRACTION_PROMPT
ExtractedSpecs ==
    {[pattern_id |-> b, name |-> "Obviousness framing", regex |-> r, pit_tier |-> 2,
      severity |-> "high", principle |-> "Clarity"] : b \in BaseIds, r \in ValidRegexes}

\* proposer.extract_and_propose(text, local_flags=[], deep_result, llm, hash)
Extract(pattern_spec) ==
    /\ RingTotal(ring, "confirmations") < MaxExtractions
    /\ \E r \in {ExtractAndPropose(World, TextClean, <<>>, DeepBiased,
                                   [kind |-> "json", value |-> pattern_spec],
                                   SourceHash)} :
           /\ ring' = r.w.ring
           /\ rows' = r.w.rows
           /\ seq' = r.w.seq
           /\ breaker' = r.w.breaker
           /\ ret' = [thread |-> "t1", op |-> "extract_and_propose",
                      value |-> [base_id |-> pattern_spec.pattern_id,
                                 regex |-> pattern_spec.regex,
                                 proposals |-> r.proposals, trace |-> r.w.trace]]
    /\ UNCHANGED <<lockHolder, pc, frame, now, tamper, scoreVars, evalVars, corrVars, unitVars, cache, mono,
                   resp, served, seen>>

NextPropose == \E pattern_spec \in ExtractedSpecs : Extract(pattern_spec)

SpecPropose == Init /\ [][NextPropose]_vars

(***************************************************************************)
(* The corrector (biasclear/corrector.py).  correct_bias is given a text,  *)
(* the scan result of that text as the caller holds it, and an LLM; the    *)
(* LLM's answer to the k-th rewrite prompt is the k-th of the outcomes.    *)
(* A rewritten text is one of the texts of the model, so that the frozen   *)
(* core's verdict on it is known.  diff_spans, a function of the original  *)
(* and the corrected text alone, is left out of the result.                *)
(***************************************************************************)
MAX_ITERATIONS == 3

\* _SEVERITY_RANK.get(severity, 0)
SeverityRank(severity) ==
    CASE severity = "critical" -> 4
      [] severity = "high" -> 3
      [] severity = "moderate" -> 2
      [] severity = "low" -> 1
      [] OTHER -> 0

\* a faulty gate: any flag of severity moderate or above, markers included
ShouldCorrectAnyFlag(scan_result) ==
    \/ DictGet(scan_result, "truth_score", 100) <= 80
    \/ \E i \in DOMAIN DictGet(scan_result, "flags", <<>>) :
           SeverityRank(DictGet(scan_result.flags[i], "severity", "low"))
               >= SeverityRank("moderate")

\* _should_correct
ShouldCorrect(scan_result) ==
    \/ DictGet(scan_result, "truth_score", 100) <= 80
    \/ \E i \in DOMAIN DictGet(scan_result, "flags", <<>>) :
           /\ DictGet(scan_result.flags[i], "category", "") = "structural"
           /\ SeverityRank(DictGet(scan_result.flags[i], "severity", "low"))
                  >= SeverityRank("moderate")

\* _verify_correction: the frozen core and the scorer on the rewritten text,
\* without learned patterns
VerifyCorrection(corrected_text, domain) ==
    LET verification_eval == Evaluate(corrected_text, domain, <<>>)
    IN [truth_score_after |-> calculate_truth_score(verification_eval, NoDeep, <<>>).score,
        flags_remaining |-> Len(verification_eval.flags),
        structural_remaining |->
            SelectSeq(verification_eval.flags, LAMBDA f : f.category = "structural")]

\* a faulty pass condition: the score alone
PassedScoreOnly(truth_score_after, flags_remaining, truth_score_before, original_structural_count) ==
    truth_score_after >= truth_score_before

\* verification["passed"]
Passed(truth_score_after, flags_remaining, truth_score_before, original_structural_count) ==
    /\ truth_score_after >= truth_score_before
    /\ flags_remaining <= original_structural_count

\* len([f for f in scan_result.get("flags", []) if f.get("category") == "structural"])
StructuralCount(scan_result) ==
    Len(SelectSeq(DictGet(scan_result, "flags", <<>>),
                  LAMBDA f : DictGet(f, "category", "") = "structural"))

\* the locals of _correction_loop before its first iteration
LoopStart(text, br) ==
    [exc |-> "none", current_text |-> text, result |-> <<>>, verification |-> <<>>,
     iterations |-> <<>>, breaker |-> br, calls |-> <<>>, stop |-> FALSE]

\* one iteration of the loop after the LLM answered: verify, record, and
\* either stop or go on with the rewritten text
LoopVerified(c, i, st, g, corrected_text, v) ==
    LET passed == Passed(v.truth_score_after, v.flags_remaining,
                         DictGet(c.scan_result, "truth_score", 100),
                         StructuralCount(c.scan_result))
    IN [st EXCEPT
           !.result = g.value,
           !.verification = [truth_score_before |->
                                 DictGet(c.scan_result, "truth_score", 100),
                             passed |-> passed] @@ v,
           !.iterations = Append(@, [iteration |-> i + 1,
                                     truth_score |-> v.truth_score_after,
                                     flags_remaining |-> v.flags_remaining,
                                     passed |-> passed]),
           !.stop = passed,
           !.current_text = IF passed THEN @ ELSE corrected_text]

\* one iteration of the loop: the prompt (the original text first, the
\* current text later), the LLM call, and what follows it
LoopIteration(c, i, st, g) ==
    LET called == [st EXCEPT !.breaker = g.breaker,
                             !.calls = Append(@, [iteration |-> i + 1,
                                                  text |-> IF i = 0 THEN c.text
                                                           ELSE st.current_text,
                                                  exc |-> g.exc])]
    IN IF g.exc # "none"
       THEN [called EXCEPT !.exc = g.exc]
       ELSE LoopVerified(c, i, called, g,
                         DictGet(g.value, "corrected", st.current_text),
                         VerifyCorrection(DictGet(g.value, "corrected", st.current_text),
                                          c.domain))

RECURSIVE CorrectionLoop(_, _, _)
\* _correction_loop: for i in range(MAX_ITERATIONS)
CorrectionLoop(c, i, st) ==
    IF i >= MAX_ITERATIONS \/ st.stop \/ st.exc # "none"
    THEN st
    ELSE CorrectionLoop(c, i + 1,
             LoopIteration(c, i, st, generate_json(st.breaker, mono, c.outcomes[i + 1])))

\* a faulty except branch of correct_bias: the failure is not reported
FallbackUnmarked(text, exc) ==
    [original |-> text, corrected |-> text, changes_made |-> <<>>,
     bias_removed |-> <<>>, confidence |-> 1000, correction_triggered |-> TRUE]

\* the except branch of correct_bias
Fallback(text, exc) ==
    [original |-> text, corrected |-> text, changes_made |-> <<>>,
     bias_removed |-> <<>>, confidence |-> 0, correction_triggered |-> TRUE,
     error |-> exc]

\* the try block of correct_bias after the loop returned
Corrected(c, st) ==
    IF st.exc # "none"
    THEN [result |-> Fallback(c.text, st.exc), breaker |-> st.breaker, calls |-> st.calls]
    ELSE [result |-> [original |-> c.text, correction_triggered |-> TRUE,
                      verification |-> st.verification,
                      iteration_count |-> Len(st.iterations),
                      iterations |-> st.iterations,
                      converged |-> IF st.iterations # <<>>
                                    THEN st.iterations[Len(st.iterations)].passed
                                    ELSE FALSE] @@ st.result,
          breaker |-> st.breaker, calls |-> st.calls]

\* correct_bias(text, scan_result, llm, domain)
correct_bias(c, br) ==
    IF ~ShouldCorrect(c.scan_result)
    THEN [result |-> [original |-> c.text, corrected |-> c.text, changes_made |-> <<>>,
                      bias_removed |-> <<>>, confidence |-> 1000,
                      correction_triggered |-> FALSE],
          breaker |-> br, calls |-> <<>>]
    ELSE Corrected(c, CorrectionLoop(c, 0, LoopStart(c.text, br)))

\* a text that raises one keyword marker and no structural pattern
TextMarker ==
    [text |-> "Everyone agrees the meeting is on Tuesday.", len |-> 42,
     flags |-> <<[category |-> "marker", pattern_id |-> "SK_EVERYONE_AGREES",
                  pit_tier |-> 1, severity |-> "low"]>>,
     matches |-> {}]

\* flags as a caller's scan result carries them
CorrectFlags ==
    {[category |-> "structural", pattern_id |-> "CONSENSUS_AS_EVIDENCE", severity |-> "low"],
     [category |-> "structural", pattern_id |-> "CONSENSUS_AS_EVIDENCE",
      severity |-> "moderate"],
     [category |-> "marker", pattern_id |-> "SK_EVERYONE_AGREES", severity |-> "critical"]}

\* scan results around the gate's threshold, and one without a truth_score
CorrectScanResults ==
    [truth_score : {80, 81}, flags : SeqsUpTo(CorrectFlags, MaxFlags)]
        \cup {[flags |-> <<f>>] : f \in CorrectFlags}

\* the LLM's answers to a rewrite prompt: a failure, a rewrite into one of
\* the texts, a JSON object without "corrected"
CorrectOutcomes ==
    {Failure, [kind |-> "json", value |-> [changes_made |-> <<>>, confidence |-> 500]]}
        \cup {[kind |-> "json",
               value |-> [corrected |-> t, changes_made |-> <<"rephrased">>,
                          bias_removed |-> <<"CONSENSUS_AS_EVIDENCE">>,
                          confidence |-> 900]] : t \in {TextClean, TextMarker, TextConsensus}}

CorrectInputs ==
    [called : {TRUE}, text : Texts, scan_result : CorrectScanResults,
     domain : Domains, outcomes : [1..MAX_ITERATIONS -> CorrectOutcomes]]

\* the breaker as correct_bias may find it: fresh, one failure short of
\* opening, or just opened
CorrectBreakers ==
    {BreakerClosed, [failures |-> 2, last_failure_time |-> 0, state |-> "closed"],
     [failures |-> 3, last_failure_time |-> 0, state |-> "open"]}

InitCorrect ==
    /\ rows = {}
    /\ seq = 0
    /\ lockHolder = "none"
    /\ pc = [t \in Threads |-> "idle"]
    /\ frame = [t \in Threads |-> NoFrame]
    /\ ret = NoRet
    /\ now = 0
    /\ tamper = NoTamper
    /\ scoreIn = NoScoreIn
    /\ scoreOut = NoScoreOut
    /\ evalIn = NoEvalIn
    /\ evalOut = NoEvalOut
    /\ corrIn \in CorrectInputs
    /\ corrOut = NoCorrOut
    /\ llmIn = NoLlmIn
    /\ llmOut = NoLlmOut
    /\ aiIn = NoAiIn
    /\ aiOut = NoAiOut
    /\ history = <<>>
    /\ windows = <<>>
    /\ ringThreshold = activation_threshold
    /\ cache = <<>>
    /\ mono = 0
    /\ ring = <<>>
    /\ breaker \in CorrectBreakers
    /\ resp = NoResp
    /\ served = 0
    /\ seen = NoSeen

\* one call of correct_bias on the drawn arguments
Correct ==
    /\ corrIn.called
    /\ ~corrOut.done
    /\ \E out \in {correct_bias(corrIn, breaker)} :
           /\ corrOut' = [done |-> TRUE, result |-> out.result, calls |-> out.calls]
           /\ breaker' = out.breaker
    /\ UNCHANGED <<auditVars, scoreVars, evalVars, corrIn, unitVars, cache, mono, ring, resp, served,
                   seen>>

NextCorrect == Correct

SpecCorrect == InitCorrect /\ [][NextCorrect]_vars

(***************************************************************************)
(* The circuit breaker under GeminiProvider.generate (llm/gemini.py).      *)
(* Calls are asyncio tasks: a call reads the breaker's state, and unless   *)
(* it is open awaits the models; other calls run while it waits.  It       *)
(* records a success when a model answered and a failure when the primary  *)
(* and the fallback model both failed.                                     *)
(***************************************************************************)
\* how long the clock may move between two steps
BreakerWaits == {30, 60}

\* generate up to the await: the is_open test, which reads the state
GenerateEnter(t) ==
    /\ pc[t] = "idle"
    /\ \E b \in {BreakerState(breaker, mono)} :
           /\ breaker' = b
           /\ IF b.state = "open"
              THEN /\ ret' = [thread |-> t, op |-> "generate",
                              value |-> [exc |-> "CircuitOpenError", at |-> mono,
                                         model_called |-> FALSE]]
                   /\ pc' = pc
              ELSE /\ pc' = [pc EXCEPT ![t] = "generate_await"]
                   /\ ret' = ret
    /\ UNCHANGED <<rows, seq, lockHolder, frame, now, tamper, scoreVars, evalVars, corrVars,
                   unitVars,
                   cache, mono, ring, resp, served, seen>>

\* generate after the await: a model answered, or both models failed
GenerateReturn(t, answered) ==
    /\ pc[t] = "generate_await"
    /\ pc' = [pc EXCEPT ![t] = "idle"]
    /\ breaker' = IF answered THEN record_success(breaker)
                  ELSE record_failure(breaker, mono)
    /\ ret' = [thread |-> t, op |-> "generate",
               value |-> [exc |-> IF answered THEN "none" ELSE "Exception", at |-> mono,
                          model_called |-> TRUE]]
    /\ UNCHANGED <<rows, seq, lockHolder, frame, now, tamper, scoreVars, evalVars, corrVars,
                   unitVars,
                   cache, mono, ring, resp, served, seen>>

NextBreaker ==
    \/ \E t \in Threads : GenerateEnter(t)
    \/ \E t \in Threads, answered \in BOOLEAN : GenerateReturn(t, answered)
    \/ \E d \in BreakerWaits : MonoAdvance(d)

SpecBreaker == Init /\ [][NextBreaker]_vars

(***************************************************************************)
(* Citation suppression in phase 1 of frozen_core.evaluate.  A text is     *)
(* laid out as its length, the matches re.findall returns for the          *)
(* pattern's indicator in text order (the matched string and where it      *)
(* starts) and the citation tokens _CITATION_PATTERNS finds in it (where   *)
(* each starts and how long it is).  The matched strings occur in the      *)
(* text at the matches' positions and nowhere else.                        *)
(***************************************************************************)
\* the default of _has_nearby_citation's window parameter
window == 120

\* len(s) for the matched strings of the model
StrLen(str) ==
    CASE str = "studies show" -> 12
      [] str = "Studies show" -> 12
      [] str = "research shows" -> 14

\* text.lower().find(marker_lower): the first place the string occurs, -1 if none
Find(text, marker_lower) ==
    LET at == {text.matches[i].pos : i \in {j \in DOMAIN text.matches :
                                              Lower(text.matches[j].str) = marker_lower}}
    IN IF at = {} THEN -1
       ELSE CHOOSE idx \in at : \A other \in at : idx <= other

\* a citation token lies inside text[start:end]
CitationIn(text, start, end) ==
    \E c \in text.citations : c.pos >= start /\ c.pos + c.len <= end

\* the window of _has_nearby_citation around a string found at idx
Nearby(text, idx, length) ==
    CitationIn(text, Max(0, idx - window), Min(text.len, idx + length + window))

\* _has_nearby_citation(text, marker)
HasNearbyCitation(text, marker) ==
    LET idx == Find(text, Lower(marker))
    IN IF idx = -1 THEN FALSE
       ELSE Nearby(text, idx, StrLen(marker))

\* _match_structural: the matched fragments, or none below min_matches
MatchStructural(text, pattern) ==
    LET matches == [i \in DOMAIN text.matches |-> text.matches[i].str]
    IN IF Len(matches) >= pattern.min_matches THEN matches ELSE <<>>

\* the body of evaluate's loop over the active patterns, for one pattern
EvaluatePattern(text, pattern) ==
    LET matches == MatchStructural(text, pattern)
    IN IF matches = <<>> THEN <<>>
       ELSE IF pattern.suppress_if_cited
                  /\ \A i \in DOMAIN matches : HasNearbyCitation(text, matches[i])
       THEN <<>>
       ELSE <<[category |-> "structural", pattern_id |-> pattern.id,
               matched_text |-> matches[1], pit_tier |-> pattern.pit_tier,
               severity |-> pattern.severity]>>

\* two frozen patterns: one suppressed by citations, one not
CLAIM_WITHOUT_CITATION ==
    [id |-> "CLAIM_WITHOUT_CITATION", pit_tier |-> 1, severity |-> "moderate",
     min_matches |-> 1, suppress_if_cited |-> TRUE]
CONSENSUS_AS_EVIDENCE ==
    [id |-> "CONSENSUS_AS_EVIDENCE", pit_tier |-> 1, severity |-> "high",
     min_matches |-> 1, suppress_if_cited |-> FALSE]
CitePatterns == {CLAIM_WITHOUT_CITATION, CONSENSUS_AS_EVIDENCE}

\* where matches start, what they read, where citation tokens start
MatchPositions == {0, 300}
MatchStrings == {"studies show", "Studies show", "research shows"}
CitePositions == {20, 129, 130, 320}
CiteTokens == {[pos |-> c, len |-> 3] : c \in CitePositions}

\* the matches of a text: up to MaxMatches of them, in text order
MatchLists ==
    {q \in SeqsUpTo([str : MatchStrings, pos : MatchPositions], MaxMatches) :
        \A i \in DOMAIN q : \A j \in DOMAIN q : i < j => q[i].pos < q[j].pos}

CiteTexts == [len : {TextLen}, matches : MatchLists, citations : SUBSET CiteTokens]

CiteInputs == [called : {TRUE}, text : CiteTexts, pattern : CitePatterns]

InitCite ==
    /\ rows = {}
    /\ seq = 0
    /\ lockHolder = "none"
    /\ pc = [t \in Threads |-> "idle"]
    /\ frame = [t \in Threads |-> NoFrame]
    /\ ret = NoRet
    /\ now = 0
    /\ tamper = NoTamper
    /\ scoreIn = NoScoreIn
    /\ scoreOut = NoScoreOut
    /\ evalIn \in CiteInputs
    /\ evalOut = NoEvalOut
    /\ corrIn = NoCorrIn
    /\ llmIn = NoLlmIn
    /\ llmOut = NoLlmOut
    /\ aiIn = NoAiIn
    /\ aiOut = NoAiOut
    /\ history = <<>>
    /\ windows = <<>>
    /\ ringThreshold = activation_threshold
    /\ corrOut = NoCorrOut
    /\ cache = <<>>
    /\ mono = 0
    /\ ring = <<>>
    /\ breaker = BreakerClosed
    /\ resp = NoResp
    /\ served = 0
    /\ seen = NoSeen

\* one pass of evaluate's loop body on the drawn text and pattern
EvaluateCited ==
    /\ evalIn.called
    /\ ~evalOut.done
    /\ evalOut' = [done |-> TRUE, flags |-> EvaluatePattern(evalIn.text, evalIn.pattern)]
    /\ UNCHANGED <<auditVars, scoreVars, evalIn, corrVars, unitVars, scanVars>>

NextCite == EvaluateCited

SpecCite == InitCite /\ [][NextCite]_vars

(***************************************************************************)
(* Claims about the audit chain.                                           *)
(***************************************************************************)

\* C1: taken in id order, the stored entries form an unbroken chain: the
\* first entry's prev_hash is 64 zero characters, each later entry's
\* prev_hash is the stored hash of the entry just before it, and each
\* entry's hash is the SHA-256 of its own prev_hash, event_type, data,
\* timestamp and core_version joined in that order.
C1_ChainUnbroken ==
    LET s == OrderAsc(rows)
    IN \A i \in 1..Len(s) :
        /\ s[i].id > 0
        /\ i = 1 => /\ Len(s[i].prev_hash) = 64
                    /\ s[i].prev_hash = GENESIS
        /\ i > 1 => /\ s[i].prev_hash = s[i - 1].hash
                    /\ s[i].id > s[i - 1].id
        /\ s[i].hash = Sha256(s[i].prev_hash \o s[i].event_type \o s[i].data
                              \o s[i].timestamp \o s[i].core_version)

\* C1 witness: three entries have been logged
C1_Witness == Cardinality(rows) >= 3

\* C2: in a chain of at least three entries, an out-of-band change of one
\* entry's data makes verify_chain, called with a limit of at least the
\* chain length, return verified=false with exactly one broken link, a
\* hash_mismatch naming that entry's id.
C2_DataTamperDetected ==
    (tamper.field = "data" /\ Cardinality(rows) >= 3) =>
        \A limit \in Limits :
            limit >= Cardinality(rows) =>
                LET v == VerifyChain(rows, limit)
                IN /\ ~v.verified
                   /\ Len(v.broken_links) = 1
                   /\ v.broken_links[1].issue = "hash_mismatch"
                   /\ v.broken_links[1].id = tamper.id

\* C2 witness: the middle entry's data was changed and verify_chain, run over
\* the whole chain, has returned verified=false
C2_Witness ==
    /\ tamper.field = "data"
    /\ tamper.id = 2
    /\ Cardinality(rows) >= 3
    /\ ret.op = "verify_chain"
    /\ ret.value.entries_checked >= 3
    /\ ~ret.value.verified

\* the ids verify_chain reports in its broken links
FlaggedIds(v) == {v.broken_links[i].id : i \in 1..Len(v.broken_links)}

\* C3 (as claimed): an out-of-band change of any one field of any one entry
\* makes verify_chain flag that entry and no other entry.
C3_AnyTamperFlagsThatEntryOnly ==
    tamper # NoTamper =>
        \A limit \in Limits :
            limit >= Cardinality(rows) =>
                FlaggedIds(VerifyChain(rows, limit)) = {tamper.newid}

\* C4: on an untampered chain verify_chain returns verified=true and no
\* broken links, for every limit of at least 1.
C4_UntamperedVerifies ==
    \A limit \in Limits :
        LET v == VerifyChain(rows, limit)
        IN /\ v.verified
           /\ v.broken_links = <<>>
           /\ v.entries_checked = Min(limit, Cardinality(rows))

\* C4 witness: verify_chain has checked at least two logged entries
C4_Witness ==
    /\ Cardinality(rows) >= 2
    /\ ret.op = "verify_chain"
    /\ ret.value.entries_checked >= 2
    /\ ret.value.verified

\* C5: under any interleaving of concurrent log calls no two calls read the
\* same prev_hash: no two entries share a prev_hash, and a caller about to
\* insert holds a prev_hash no stored entry has used.
C5_NoFork ==
    /\ \A r1, r2 \in rows : r1.prev_hash = r2.prev_hash => r1 = r2
    /\ \A t \in Threads :
           pc[t] = "log_insert" => \A r \in rows : r.prev_hash # frame[t].prev_hash
    /\ \A t1, t2 \in Threads :
           (pc[t1] = "log_insert" /\ pc[t2] = "log_insert" /\ t1 # t2)
               => frame[t1].prev_hash # frame[t2].prev_hash

\* C5 witness: one caller waits for the lock while another, inside it, has
\* read the prev_hash of a non-empty chain
C5_Witness ==
    \E t1, t2 \in Threads :
        /\ pc[t1] = "log_lock"
        /\ pc[t2] = "log_insert"
        /\ lockHolder = t2
        /\ rows # {}

\* C6: a stored entry is never changed or removed; only the insert step of
\* log writes, adding one row; verify_chain, get_recent and get_count write
\* nothing; and /audit/verify writes exactly one chain_verified entry, whose
\* data is the finished verification's result.
C6_AppendOnlyStep ==
    /\ rows \subseteq rows'
    /\ rows' # rows =>
           \E t \in Threads :
               /\ pc[t] = "log_insert"
               /\ pc'[t] = "idle"
               /\ Cardinality(rows') = Cardinality(rows) + 1
    /\ (ret' # ret /\ ret'.op \in {"verify_chain", "get_recent", "get_count"})
           => rows' = rows
    /\ \A t \in Threads :
           (pc[t] = "idle" /\ pc'[t] # "idle") => rows' = rows
    /\ \A t \in Threads :
           (pc[t] = "log_insert" /\ pc'[t] = "idle" /\ frame[t].op = "verify_audit") =>
               \E r \in rows' \ rows :
                   /\ rows' = rows \cup {r}
                   /\ r.event_type = "chain_verified"
                   /\ r.data = JsonDumps(VerificationPy(ret'.value))
                   /\ ret'.op = "verify_audit"
                   /\ ret'.value.entries_checked <= Cardinality(rows)

C6_AppendOnly == [][C6_AppendOnlyStep]_vars

\* C6 witness: /audit/verify has returned after appending its chain_verified
\* entry to a chain that already held entries
C6_Witness ==
    /\ ret.op = "verify_audit"
    /\ Cardinality(rows) >= 2
    /\ \E r \in rows : r.event_type = "chain_verified" /\ r.id >= 2

(***************************************************************************)
(* Claims about POST /scan.                                                *)
(***************************************************************************)

\* the positions of the trace that hold an event of kind ev
Events(trace, ev) == {i \in DOMAIN trace : trace[i].ev = ev}

\* C7 (as claimed): every successful POST /scan response carries an
\* audit_hash equal to the hash returned by an audit append of type
\* scan_{mode} made while handling that same request.
C7_ResponseHasOwnAuditEntry ==
    resp.status = 200 =>
        /\ "audit_hash" \in DOMAIN resp.result
        /\ \E i \in Events(resp.trace, "audit") :
               /\ resp.trace[i].event_type = "scan_" \o resp.request.mode
               /\ resp.trace[i].hash = resp.result.audit_hash

\* C8 (as claimed): in every deep or full scan the scan's audit append comes
\* before pattern proposal and its hash is the source_scan_hash handed to
\* LearningRing.propose, so every stored learned pattern's source_scan_hash
\* is the hash of a scan's audit entry.
C8_ProposalCarriesScanHash ==
    /\ resp.status # 0 =>
           \A i \in Events(resp.trace, "propose") :
               \E j \in Events(resp.trace, "audit") :
                   /\ j < i
                   /\ resp.trace[j].event_type = "scan_" \o resp.request.mode
                   /\ resp.trace[j].hash = resp.trace[i].source_scan_hash
    /\ \A k \in DOMAIN ring :
           \E r \in rows :
               /\ r.event_type \in {"scan_deep", "scan_full"}
               /\ r.hash = ring[k].source_scan_hash

\* the deep-analysis call of the last request failed or met an open breaker
DeepCallFailed ==
    /\ resp.status # 0
    /\ resp.request.mode \in {"deep", "full"}
    /\ \E i \in Events(resp.trace, "llm") :
           /\ resp.trace[i].call = "deep_analysis"
           /\ resp.trace[i].exc # "none"

\* C9 (as claimed): whenever the LLM call fails or the circuit breaker is
\* open during a deep or full scan, the scan succeeds with a local-only
\* result whose scan_mode is "local (fallback from {mode})", whose _degraded
\* is true and whose truth_score is at most 85.
C9_LlmFailureDegradesToLocal ==
    DeepCallFailed =>
        /\ resp.status = 200
        /\ resp.result.scan_mode = "local (fallback from " \o resp.request.mode \o ")"
        /\ DictGet(resp.result, "_degraded", FALSE)
        /\ resp.result.truth_score <= 85

(***************************************************************************)
(* Claims about the truth score.                                           *)
(***************************************************************************)

\* how many positions of the sequence s satisfy P
CountWhere(s, P(_)) == Cardinality({i \in DOMAIN s : P(s[i])})

\* the tabled penalties of one input, summed by counting
C10_TabledPenalties(in) ==
    LET flags == in.core_eval.flags
        label == in.core_eval.pit_tier_active
        ai == in.ai_flags
        deep == in.deep_result
        Structural(sev) ==
            CountWhere(flags, LAMBDA f : f.category = "structural" /\ f.severity = sev)
        Ai(sev) == CountWhere(ai, LAMBDA f : f.severity = sev)
        tiers == {flags[i].pit_tier : i \in {j \in DOMAIN flags :
                                                flags[j].category = "structural"}}
        dominant == IF Len(label) >= 2 THEN label[2] ELSE "0"
        deepSev == IF "severity" \in DOMAIN deep THEN deep.severity ELSE "none"
        deepTypes == IF "bias_types" \in DOMAIN deep
                     THEN {deep.bias_types[i] : i \in DOMAIN deep.bias_types} \ {"none"}
                     ELSE {}
    IN    25 * Structural("critical") + 20 * Structural("high")
        + 14 * Structural("moderate") + 8 * Structural("low")
        + 4 * CountWhere(flags, LAMBDA f : f.category = "marker")
        + (CASE dominant = "1" -> 10 [] dominant = "2" -> 7 [] dominant = "3" -> 4
             [] OTHER -> 0)
        + (IF tiers = {} THEN 0 ELSE 5 * (Cardinality(tiers) - 1))
        + 14 * Ai("critical") + 10 * Ai("high") + 6 * Ai("moderate") + 3 * Ai("low")
        + (CASE deepSev = "critical" -> 20 [] deepSev = "high" -> 15
             [] deepSev = "moderate" -> 8 [] deepSev = "low" -> 4 [] OTHER -> 0)
        + 4 * Cardinality(deepTypes)

\* C10: for every combination of core flags, AI flags and deep result,
\* calculate_truth_score returns 100 minus the sum of the tabled penalties,
\* clamped to 0..100: never negative, never above 100.
C10_ScoreIsClampedTableSum ==
    scoreOut.done =>
        LET raw == 100 - C10_TabledPenalties(scoreIn)
        IN /\ scoreOut.score = (IF raw < 0 THEN 0 ELSE IF raw > 100 THEN 100 ELSE raw)
           /\ scoreOut.score >= 0
           /\ scoreOut.score <= 100
           /\ scoreOut.breakdown.final_score = scoreOut.score

\* C10 witness: the tabled penalties of a scored input sum to more than 100,
\* with penalties of every kind present, and the score returned is 0
C10_Witness ==
    /\ scoreOut.done
    /\ C10_TabledPenalties(scoreIn) > 100
    /\ scoreOut.score = 0
    /\ scoreOut.breakdown.multi_tier_penalty < 0
    /\ scoreOut.breakdown.pit_tier_penalty < 0
    /\ scoreOut.breakdown.deep_severity_penalty < 0
    /\ scoreOut.breakdown.deep_bias_type_penalty < 0
    /\ scoreOut.breakdown.ai_flag_penalties # <<>>

(***************************************************************************)
(* Claims about the scan result.                                           *)
(***************************************************************************)

\* C11 (as claimed): for every scan result in any mode, if its flags list is
\* empty and no deep-severity penalty applies, then truth_score is at least
\* 90 and knowledge_type is neutral.
C11_NoFlagsMeansNeutral ==
    (/\ resp.status = 200
     /\ resp.result.flags = <<>>
     /\ resp.result.score_breakdown.deep_severity_penalty = 0)
        => /\ resp.result.truth_score >= 90
           /\ resp.result.knowledge_type = "neutral"

\* C12 (as claimed): for every scan in any mode and for any LLM output, the
\* confidence reported in the result lies between 0 and 0.95 inclusive
\* (0 and 950 thousandths).
C12_ConfidenceWithinCap ==
    resp.status = 200 =>
        /\ resp.result.confidence >= 0
        /\ resp.result.confidence <= 950

\* the set of the elements of a sequence
Range(q) == {q[i] : i \in DOMAIN q}

\* the latest call is a scan_local call with the text, the domain and the
\* set of active learned patterns of the call kept earlier
SameLocalScanAgain ==
    /\ ret.op = "scan_local"
    /\ seen # NoSeen
    /\ ret.value.text = seen.text
    /\ ret.value.domain = seen.domain
    /\ Range(ret.value.learned) = Range(seen.learned)

CitedAtOwnPosition(text, k) ==
    Nearby(text, text.matches[k].pos, StrLen(text.matches[k].str))

\* C14 (as claimed): a structural pattern with suppress_if_cited set is left
\* out of the flags exactly when every one of its matches in the text has a
\* citation token within 120 characters of that match's own position; if
\* any match has no citation in its own window, the pattern is flagged.
C14_SuppressedIffEveryMatchCited ==
    (/\ evalOut.done
     /\ evalIn.pattern.suppress_if_cited
     /\ evalIn.text.matches # <<>>)
        => (evalOut.flags = <<>>
                <=> \A k \in DOMAIN evalIn.text.matches :
                        CitedAtOwnPosition(evalIn.text, k))

\* C15 (as claimed): every frozen-core evaluation run on behalf of a scan,
\* in local, deep and full mode alike, uses all currently active learned
\* patterns, so an active learned pattern that matches the text is flagged
\* in every mode.
C15_ActiveLearnedPatternFlagged ==
    resp.status = 200 =>
        \A k \in DOMAIN resp.learned :
            resp.learned[k].regex \in resp.request.text.matches
                => \E i \in DOMAIN resp.result.flags :
                       resp.result.flags[i].pattern_id = resp.learned[k].pattern_id

(***************************************************************************)
(* Claims about the learning ring.                                         *)
(***************************************************************************)

\* the moves of a pattern's status the lifecycle allows
StatusMoves == {<<"staging", "active">>, <<"active", "deactivated">>}

\* the ids get_active_patterns returns
ActiveIds(rg) == {GetActivePatterns(rg)[k].pattern_id : k \in DOMAIN GetActivePatterns(rg)}

\* C16: a learned pattern's status only ever moves staging -> active ->
\* deactivated: a new row starts in staging, no step moves a status any
\* other way, and a deactivated pattern stays deactivated and is not among
\* the patterns get_active_patterns returns.
C16_StatusOneWayStep ==
    /\ Len(ring') >= Len(ring)
    /\ \A i \in DOMAIN ring' \ DOMAIN ring : ring'[i].status = "staging"
    /\ \A i \in DOMAIN ring :
           /\ ring'[i].pattern_id = ring[i].pattern_id
           /\ \/ ring'[i].status = ring[i].status
              \/ <<ring[i].status, ring'[i].status>> \in StatusMoves
           /\ ring[i].status = "deactivated"
                  => /\ ring'[i].status = "deactivated"
                     /\ ring'[i].pattern_id \notin ActiveIds(ring')

C16_StatusOneWay == [][C16_StatusOneWayStep]_vars

\* C16 witness: a deactivated pattern whose confirmations have reached the
\* threshold was proposed again, and the proposal was accepted
C16_Witness ==
    /\ ret.op = "propose"
    /\ ret.value.result.accepted
    /\ \E i \in DOMAIN ring :
           /\ ring[i].pattern_id = ret.value.pattern_id
           /\ ring[i].status = "deactivated"
           /\ ring[i].confirmations > activation_threshold

\* the audit events of a pattern's lifecycle
LifecycleEvents ==
    {"pattern_proposed", "pattern_confirmed", "pattern_activated", "pattern_deactivated"}

\* what a step committed to row i of the table, as the events that belong
\* to it: an insert, a confirmation, an activation, a deactivation
ChangesAt(rg, rg2, i) ==
    IF i \notin DOMAIN rg
    THEN << <<"pattern_proposed", rg2[i].pattern_id>> >>
    ELSE (IF rg2[i].confirmations # rg[i].confirmations
          THEN << <<"pattern_confirmed", rg2[i].pattern_id>> >> ELSE <<>>)
         \o (IF rg2[i].status # rg[i].status /\ rg2[i].status = "active"
             THEN << <<"pattern_activated", rg2[i].pattern_id>> >> ELSE <<>>)
         \o (IF rg2[i].status # rg[i].status /\ rg2[i].status = "deactivated"
             THEN << <<"pattern_deactivated", rg2[i].pattern_id>> >> ELSE <<>>)

RECURSIVE ChangesFrom(_, _, _)
\* the same for rows i and later
ChangesFrom(rg, rg2, i) ==
    IF i > Len(rg2) THEN <<>>
    ELSE ChangesAt(rg, rg2, i) \o ChangesFrom(rg, rg2, i + 1)

\* the lifecycle entries a step appended to the audit chain, oldest first
AddedLifecycleRows(rs, rs2) ==
    OrderAsc({r \in rs2 \ rs : r.event_type \in LifecycleEvents})

\* the calls of the audit hook an operation made, in order
HookCalls(r) ==
    IF "trace" \in DOMAIN r.value
    THEN SelectSeq(r.value.trace, LAMBDA e : e.ev = "audit")
    ELSE <<>>

\* C17: with the audit hook installed, every insert, confirmation,
\* activation and deactivation the ring commits is followed by its audit
\* event (pattern_proposed, pattern_confirmed, pattern_activated,
\* pattern_deactivated) naming that pattern, and no such event is appended
\* without the committed change: the lifecycle entries a step appends to
\* the chain are exactly the hook calls of the operation, and those are
\* exactly the events of the changes the step made to the table, in order.
C17_ChangeAndEventTogetherStep ==
    LET added == AddedLifecycleRows(rows, rows')
        calls == HookCalls(ret')
    IN (ring' # ring \/ added # <<>>) =>
           /\ Len(added) = Len(calls)
           /\ \A k \in DOMAIN added :
                  /\ added[k].event_type = calls[k].event_type
                  /\ added[k].data = JsonDumps(calls[k].data)
                  /\ added[k].hash = calls[k].hash
           /\ [k \in DOMAIN calls |->
                  <<calls[k].event_type, calls[k].data.v[1][2].v>>]
                  = ChangesFrom(ring, ring', 1)

C18_ProposeStep ==
    (ret'.op = "propose" /\ ret'.value.result.accepted /\ <<ring, rows>> # <<ring', rows'>>) =>
        LET id == ret'.value.pattern_id
            i == RingIndex(ring, id)
            j == RingIndex(ring', id)
        IN /\ j # 0
           /\ \A k \in DOMAIN ring : k # j => ring'[k] = ring[k]
           /\ i = 0 =>
                  /\ Len(ring') = Len(ring) + 1
                  /\ ring'[j].status = "staging"
                  /\ ring'[j].confirmations = 1
                  /\ ring'[j].activated_at = ""
           /\ i # 0 =>
                  /\ j = i
                  /\ Len(ring') = Len(ring)
                  /\ ring'[j].confirmations = ring[i].confirmations + 1
                  /\ IF ring[i].status = "staging"
                          /\ ring'[j].confirmations >= activation_threshold
                     THEN /\ ring'[j].status = "active"
                          /\ ring'[j].activated_at = IsoFormat(now)
                     ELSE /\ ring'[j].status = ring[i].status
                          /\ ring'[j].activated_at = ring[i].activated_at

C18_Propose == [][C18_ProposeStep]_vars

\* C18 witness: the proposal that brought the confirmations to the
\* threshold has activated the pattern
C18_Witness ==
    /\ ret.op = "propose"
    /\ ret.value.result.action = "activated"
    /\ \E i \in DOMAIN ring :
           /\ ring[i].pattern_id = ret.value.pattern_id
           /\ ring[i].status = "active"
           /\ ring[i].confirmations = activation_threshold
           /\ ring[i].activated_at # ""

\* C19: report_false_positive on a known pattern raises its false_positives
\* by exactly 1 and touches no other counter and no other row; it moves the
\* pattern to deactivated, with deactivated_at stamped, exactly when the
\* pattern was active, its total_evaluations is above 0 and the raised
\* count divided by total_evaluations exceeds fp_limit; in every other case
\* status and deactivated_at stay as they were.
C19_ReportFalsePositiveStep ==
    (ret'.op = "report_false_positive" /\ ring' # ring) =>
        LET i == RingIndex(ring, ret'.value.pattern_id)
        IN /\ i # 0
           /\ Len(ring') = Len(ring)
           /\ \A k \in DOMAIN ring : k # i => ring'[k] = ring[k]
           /\ ring'[i].false_positives = ring[i].false_positives + 1
           /\ ring'[i].total_evaluations = ring[i].total_evaluations
           /\ ring'[i].confirmations = ring[i].confirmations
           /\ IF /\ ring[i].status = "active"
                 /\ ring[i].total_evaluations > 0
                 /\ ring'[i].false_positives * 100 > fp_limit * ring[i].total_evaluations
              THEN /\ ring'[i].status = "deactivated"
                   /\ ring'[i].deactivated_at = IsoFormat(now)
              ELSE /\ ring'[i].status = ring[i].status
                   /\ ring'[i].deactivated_at = ring[i].deactivated_at

C19_ReportFalsePositive == [][C19_ReportFalsePositiveStep]_vars

\* C19 witness: a report on an active pattern that had been evaluated
\* several times brought its rate above the limit and deactivated it
C19_Witness ==
    /\ ret.op = "report_false_positive"
    /\ "action" \in DOMAIN ret.value.result
    /\ ret.value.result.action = "deactivated"
    /\ \E i \in DOMAIN ring :
           /\ ring[i].pattern_id = ret.value.pattern_id
           /\ ring[i].status = "deactivated"
           /\ ring[i].deactivated_at # ""
           /\ ring[i].total_evaluations >= 2
           /\ ring[i].false_positives * 100 > fp_limit * ring[i].total_evaluations

\* C20 (as claimed): in every state reached through propose,
\* report_false_positive and record_evaluation, every learned pattern has
\* false_positives less than or equal to total_evaluations.
C20_FalsePositivesWithinEvaluations ==
    \A i \in DOMAIN ring : ring[i].false_positives <= ring[i].total_evaluations

\* C21: a propose call whose pit_tier is not 1, 2 or 3, or whose severity
\* is not one of low, moderate, high, critical, returns accepted = false
\* and changes nothing: the table of learned patterns and the audit chain
\* are as they were, and the call made no audit hook call.
C21_InvalidProposalStep ==
    (/\ ret'.op = "propose"
     /\ ret' # ret
     /\ \/ ret'.value.pit_tier \notin {1, 2, 3}
        \/ ret'.value.severity \notin {"low", "moderate", "high", "critical"})
        => /\ ret'.value.result.accepted = FALSE
           /\ ring' = ring
           /\ rows' = rows
           /\ HookCalls(ret') = <<>>

Principles == {"Truth", "Justice", "Clarity", "Agency", "Identity"}

\* C22 (as claimed): a propose call whose principle is not one of the five
\* immutable principles is rejected, so no stored learned pattern ever
\* carries a principle outside those five.
C22_StoredPrincipleAmongFive ==
    \A i \in DOMAIN ring : ring[i].principle \in Principles

\* C23 (as claimed): every time an active learned pattern takes part in an
\* evaluation performed for a scan, record_evaluation is called for it and
\* its total_evaluations grows by 1.  The table starts with the pattern
\* never evaluated, so after a computed local or full scan that was handed
\* the pattern its total_evaluations is at least 1.
C23_EvaluationRecorded ==
    (/\ resp.status = 200
     /\ resp.request.mode \in {"local", "full"}
     /\ resp.trace # <<>>)
        => \A k \in DOMAIN resp.learned :
               \E i \in DOMAIN ring :
                   /\ ring[i].pattern_id = resp.learned[k].pattern_id
                   /\ ring[i].total_evaluations >= 1

(***************************************************************************)
(* Claims about the pattern proposer.                                      *)
(***************************************************************************)

\* C24 (as claimed): two pattern extractions that yield the same regex
\* string get the same learned-pattern id, whichever scan produced them and
\* whatever base id the LLM attached, so the second proposal raises the
\* first one's confirmations instead of creating a second pattern: the
\* table never holds two patterns with one regex.
C24_SameRegexSamePattern ==
    \A i \in DOMAIN ring : \A j \in DOMAIN ring :
        ring[i].regex = ring[j].regex => i = j

(***************************************************************************)
(* Claims about the corrector.                                             *)
(***************************************************************************)

\* the scan result meets the correction threshold: a truth_score of at most
\* 80, or a structural flag of severity moderate, high or critical
MeetsThreshold(scan_result) ==
    \/ "truth_score" \in DOMAIN scan_result /\ scan_result.truth_score <= 80
    \/ \E i \in DOMAIN scan_result.flags :
           /\ scan_result.flags[i].category = "structural"
           /\ scan_result.flags[i].severity \in {"moderate", "high", "critical"}

\* C25: correct_bias calls the LLM if and only if the scan's truth_score is
\* at most 80 or some structural flag has severity moderate, high or
\* critical (marker flags alone never trigger it); otherwise it returns
\* corrected equal to the original text, empty changes_made and
\* correction_triggered = false, without any LLM call.
C25_ThresholdGate ==
    corrOut.done =>
        /\ corrOut.calls # <<>> <=> MeetsThreshold(corrIn.scan_result)
        /\ corrOut.result.correction_triggered <=> MeetsThreshold(corrIn.scan_result)
        /\ ~MeetsThreshold(corrIn.scan_result) =>
               /\ corrOut.result.corrected = corrIn.text
               /\ corrOut.result.original = corrIn.text
               /\ corrOut.result.changes_made = <<>>

\* C25 witness: a scan result scoring 81 whose only flag is a marker of
\* severity critical went through correct_bias without an LLM call
C25_Witness ==
    /\ corrOut.done
    /\ corrOut.calls = <<>>
    /\ "truth_score" \in DOMAIN corrIn.scan_result
    /\ corrIn.scan_result.truth_score = 81
    /\ Len(corrIn.scan_result.flags) = 1
    /\ corrIn.scan_result.flags[1].category = "marker"
    /\ corrIn.scan_result.flags[1].severity = "critical"
    /\ corrOut.result.corrected = corrIn.text

RECURSIVE RewriteOutput(_)
\* the text the k-th rewrite iteration puts out: the LLM's "corrected", or
\* the iteration's own input when the answer has none; the 0-th is the
\* original text
RewriteOutput(k) ==
    IF k = 0 THEN corrIn.text
    ELSE IF "corrected" \in DOMAIN corrIn.outcomes[k].value
    THEN corrIn.outcomes[k].value.corrected
    ELSE RewriteOutput(k - 1)

\* the k-th iteration's verification meets the pass condition
IterationPasses(k) ==
    /\ corrOut.result.iterations[k].truth_score
           >= DictGet(corrIn.scan_result, "truth_score", 100)
    /\ corrOut.result.iterations[k].flags_remaining
           <= Cardinality({i \in DOMAIN corrIn.scan_result.flags :
                               corrIn.scan_result.flags[i].category = "structural"})

\* C26: a triggered correction runs at most 3 rewrite iterations with one
\* LLM call each; it stops at the first iteration whose verification has
\* truth_score_after at least truth_score_before and flags_remaining at
\* most the original structural flag count; the first iteration rewrites
\* the original text and every later one the previous iteration's output;
\* and converged is true exactly when the last executed iteration passed.
C26_CorrectionLoop ==
    (corrOut.done /\ corrOut.result.correction_triggered) =>
        /\ Len(corrOut.calls) \in 1..3
        /\ \A k \in DOMAIN corrOut.calls :
               /\ corrOut.calls[k].iteration = k
               /\ corrOut.calls[k].text = RewriteOutput(k - 1)
        /\ "error" \notin DOMAIN corrOut.result =>
               LET its == corrOut.result.iterations
                   n == Len(its)
               IN /\ n = Len(corrOut.calls)
                  /\ n = corrOut.result.iteration_count
                  /\ \A k \in 1..n :
                         /\ its[k].iteration = k
                         /\ its[k].truth_score
                                = VerifyCorrection(RewriteOutput(k), corrIn.domain).truth_score_after
                         /\ its[k].flags_remaining
                                = VerifyCorrection(RewriteOutput(k), corrIn.domain).flags_remaining
                         /\ its[k].passed <=> IterationPasses(k)
                  /\ \A k \in 1..(n - 1) : ~IterationPasses(k)
                  /\ n < 3 => IterationPasses(n)
                  /\ corrOut.result.converged <=> IterationPasses(n)

\* C26 witness: two rewrites failed verification, each handed on to the
\* next iteration, and the third passed
C26_Witness ==
    /\ corrOut.done
    /\ corrOut.result.correction_triggered
    /\ "error" \notin DOMAIN corrOut.result
    /\ corrOut.result.iteration_count = 3
    /\ corrOut.result.converged
    /\ corrOut.calls[2].text # corrIn.text
    /\ corrOut.calls[3].text # corrOut.calls[2].text

\* C27: if the LLM call fails in any iteration of a triggered correction,
\* correct_bias raises nothing and returns the original text as corrected,
\* with error set, confidence 0 and empty changes_made, whatever earlier
\* iterations had rewritten.
C27_LlmFailureFallsBack ==
    (corrOut.done /\ \E k \in DOMAIN corrOut.calls : corrOut.calls[k].exc # "none") =>
        /\ corrOut.result.original = corrIn.text
        /\ corrOut.result.corrected = corrIn.text
        /\ "error" \in DOMAIN corrOut.result
        /\ corrOut.result.error # "none"
        /\ corrOut.result.confidence = 0
        /\ corrOut.result.changes_made = <<>>
        /\ corrOut.calls[Len(corrOut.calls)].exc # "none"

\* C27 witness: the first rewrite changed the text and failed verification,
\* and the LLM call of a later iteration failed
C27_Witness ==
    /\ corrOut.done
    /\ Len(corrOut.calls) >= 2
    /\ corrOut.calls[1].exc = "none"
    /\ corrOut.calls[2].text # corrIn.text
    /\ corrOut.calls[Len(corrOut.calls)].exc # "none"
    /\ corrOut.result.corrected = corrIn.text

(***************************************************************************)
(* Claims about the LLM circuit breaker.                                   *)
(***************************************************************************)

\* a call of task t returns in this step with a model's answer
SuccessStep(t) ==
    pc[t] = "generate_await" /\ pc'[t] = "idle" /\ ret'.value.exc = "none"

\* a call of task t returns in this step after both models failed
FailureStep(t) ==
    pc[t] = "generate_await" /\ pc'[t] = "idle" /\ ret'.value.exc = "Exception"

\* C28: the breaker moves from closed to open exactly when 3 failures have
\* been recorded with no success in between; any success resets the failure
\* count and closes it; an open breaker becomes half-open only once 60
\* seconds have passed since the last recorded failure; from half-open a
\* success closes it and a failure re-opens it; no other state changes
\* occur.
C28_BreakerStep ==
    /\ \A t \in Threads :
           SuccessStep(t) => breaker'.failures = 0 /\ breaker'.state = "closed"
    /\ \A t \in Threads :
           FailureStep(t) =>
               /\ breaker'.failures = breaker.failures + 1
               /\ breaker'.last_failure_time = mono
               /\ breaker.state = "closed" =>
                      IF breaker'.failures = 3 THEN breaker'.state = "open"
                      ELSE breaker'.failures < 3 /\ breaker'.state = "closed"
               /\ breaker.state = "half-open" => breaker'.state = "open"
    /\ (breaker.state = "open" /\ breaker'.state = "half-open") =>
           /\ mono - breaker.last_failure_time >= 60
           /\ breaker'.failures = breaker.failures
           /\ breaker'.last_failure_time = breaker.last_failure_time
    /\ breaker' # breaker =>
           \/ \E t \in Threads : SuccessStep(t) \/ FailureStep(t)
           \/ breaker.state = "open" /\ breaker'.state = "half-open"
    /\ breaker'.state # breaker.state =>
           <<breaker.state, breaker'.state>> \in
               {<<"closed", "open">>, <<"open", "half-open">>, <<"half-open", "closed">>,
                <<"half-open", "open">>, <<"open", "closed">>}
    /\ (breaker.state = "open" /\ breaker'.state = "closed") =>
           \E t \in Threads : SuccessStep(t)

C28_Breaker == [][C28_BreakerStep]_vars

\* C28 witness: the breaker opened at the third failure, became half-open
\* 60 seconds later and was opened again by the next failure
C28_Witness ==
    /\ breaker.state = "open"
    /\ breaker.failures = 4
    /\ breaker.last_failure_time >= 60
    /\ ret.op = "generate"
    /\ ret.value.exc = "Exception"

\* C29: while the breaker is open and less than 60 seconds have passed
\* since the last recorded failure, every generate call made raises
\* CircuitOpenError without invoking any model and without changing the
\* breaker's failure count or last-failure time.
C29_OpenFailsFastStep ==
    (breaker.state = "open" /\ mono - breaker.last_failure_time < 60) =>
        \A t \in Threads :
            pc[t] = "idle" =>
                /\ pc'[t] = "idle"
                /\ (ret' # ret /\ ret'.thread = t) =>
                       /\ ret'.value.exc = "CircuitOpenError"
                       /\ ret'.value.model_called = FALSE
                       /\ breaker' = breaker

C29_OpenFailsFast == [][C29_OpenFailsFastStep]_vars

\* C29 witness: a call made 30 seconds after the failure that opened the
\* breaker was turned away
C29_Witness ==
    /\ ret.op = "generate"
    /\ ret.value.exc = "CircuitOpenError"
    /\ breaker.state = "open"
    /\ ret.value.at - breaker.last_failure_time = 30

(***************************************************************************)
(* POST /scan/batch (api/main.py, scan_batch).  The items' coroutines are   *)
(* gathered; here they run to completion one after another in item order,  *)
(* which is one of the schedules the event loop can produce.  The rate      *)
(* limiter admits the request and authentication is off.                   *)
(***************************************************************************)
MaxBatches == 2    \* POST /scan/batch requests handled in one behaviour
MaxItems == 2      \* items in one batch request (the schema admits 1..100)

\* an answer to the deep-analysis prompt that is valid JSON but a list:
\* generate_json returns json.loads of it unchecked (the list is held in a
\* record so that it can stand beside the JSON objects)
DeepList == [kind |-> "json_list", value |-> [list |-> <<"none">>]]

\* the items of a batch request, each with the answers its LLM calls get
BatchItems ==
    [text : Texts, domain : Domains, mode : {"local"},
     od : {Failure}, oi : {Failure}, op : {Failure}]
    \cup [text : Texts, domain : Domains, mode : {"deep"},
          od : {Failure, [kind |-> "json", value |-> DeepClean], DeepList},
          oi : {Failure}, op : {Failure}]
    \cup [text : Texts, domain : Domains, mode : {"full"},
          od : {Failure, [kind |-> "json", value |-> DeepBiased]},
          oi : {Failure}, op : {Failure}]

\* ScanBatchRequest.items: at least one item
BatchRequests == {items \in SeqsUpTo(BatchItems, MaxItems) : Len(items) >= 1}

\* the fields ScanResponse requires, of those a scan result carries here
RequiredScanFields ==
    {"text", "truth_score", "knowledge_type", "bias_detected", "pit_tier",
     "severity", "confidence", "flags", "scan_mode", "source", "core_version"}

\* the result scan_batch puts in the place of an item that raised
BatchPlaceholder ==
    [text |-> "", truth_score |-> 0, knowledge_type |-> "unknown",
     bias_detected |-> FALSE, pit_tier |-> "none", severity |-> "none",
     confidence |-> 0, flags |-> <<>>, impact_projection |-> FALSE,
     scan_mode |-> "error", source |-> "error", core_version |-> CORE_VERSION]

\* the scan of an item whose deep-analysis answer g is a list: the call
\* returns, then _extract_ai_flags calls .get on the list
BatchListAnswer(w, g) ==
    [exc |-> "AttributeError",
     w |-> [w EXCEPT !.breaker = g.breaker,
                     !.trace = Append(@, [ev |-> "llm", call |-> "deep_analysis",
                                          exc |-> g.exc])],
     result |-> <<>>]

\* the try block of _scan_one: the scan of the item's mode
BatchDispatch(w, item, learned) ==
    IF item.mode = "local"
    THEN [exc |-> "none", w |-> w,
          result |-> scan_local(item.text, item.domain, learned)]
    ELSE IF item.od.kind = "json_list"
            /\ generate_json(w.breaker, mono, item.od).exc = "none"
    THEN BatchListAnswer(w, generate_json(w.breaker, mono, item.od))
    ELSE IF item.mode = "deep"
    THEN scan_deep(w, item.text, item.domain, item.od, item.op)
    ELSE scan_full(w, item.text, item.domain, learned, item.od, item.oi, item.op)

\* the except CircuitOpenError branch of _scan_one
BatchFallback(item, learned) ==
    [scan_mode |-> "local (fallback from " \o item.mode \o ")"]
        @@ scan_local(item.text, item.domain, learned)

\* _scan_one under gather(return_exceptions=True): the dict returned, or the
\* exception raised in its place
BatchScanOne(w, item, learned) ==
    LET scanned == BatchDispatch(w, item, learned)
    IN [w |-> scanned.w,
        result |-> IF scanned.exc = "none" THEN scanned.result
                   ELSE IF scanned.exc = "CircuitOpenError"
                   THEN BatchFallback(item, learned)
                   ELSE [raised |-> scanned.exc]]

RECURSIVE BatchGather(_, _, _, _)
\* asyncio.gather over the first k items: the stores afterwards and the
\* results in item order
BatchGather(w, items, learned, k) ==
    IF k = 0 THEN [w |-> w, results |-> <<>>]
    ELSE LET before == BatchGather(w, items, learned, k - 1)
             one == BatchScanOne(before.w, items[k], learned)
         IN [w |-> one.w, results |-> Append(before.results, one.result)]

\* isinstance(r, dict)
IsDictResult(r) == "raised" \notin DOMAIN r

\* the data dict of the batch's audit entry
BatchAuditData(items, results) ==
    PyDict(<< <<"total", PyInt(Len(items))>>,
              <<"scanned", PyInt(Len(SelectSeq(results, IsDictResult)))>>,
              <<"errors", PyInt(Len(results) - Len(SelectSeq(results, IsDictResult)))>>,
              <<"key_id", PyNone>> >>)

\* the dict scan_batch returns
BatchBody(items, results) ==
    [results |-> [i \in DOMAIN results |->
                     IF IsDictResult(results[i]) THEN results[i]
                     ELSE BatchPlaceholder],
     total |-> Len(items),
     scanned |-> Len(SelectSeq(results, IsDictResult))]

\* response_model=ScanBatchResponse: the body is sent when every result
\* validates as a ScanResponse, and the request fails otherwise
BatchStatus(body) ==
    IF \A i \in DOMAIN body.results :
           RequiredScanFields \subseteq DOMAIN body.results[i]
    THEN 200 ELSE 500

\* scan_batch after the gather: the audit append, the body, its validation
BatchRespond(items, gathered) ==
    LET logged == AuditLog(gathered.w, "scan_batch",
                           BatchAuditData(items, gathered.results), CORE_VERSION)
        body == BatchBody(items, gathered.results)
    IN [w |-> logged,
        value |-> [items |-> items, gathered |-> gathered.results,
                   body |-> body, status |-> BatchStatus(body)]]

\* scan_batch(request): the active learned patterns are read once
scan_batch(items) ==
    BatchRespond(items,
                 BatchGather(World, items, GetActivePatterns(ring), Len(items)))

\* one POST /scan/batch request, handled from the rate-limit check to the
\* response
ScanBatch(items) ==
    /\ served < MaxBatches
    /\ served' = served + 1
    /\ \E out \in {scan_batch(items)} :
           /\ rows' = out.w.rows
           /\ seq' = out.w.seq
           /\ ring' = out.w.ring
           /\ breaker' = out.w.breaker
           /\ ret' = [thread |-> "t1", op |-> "scan_batch", value |-> out.value]
    /\ UNCHANGED <<lockHolder, pc, frame, now, tamper, scoreVars, evalVars, corrVars, unitVars, cache, mono,
                   resp, seen>>

NextBatch == \E items \in BatchRequests : ScanBatch(items)

\* requests to POST /scan/batch, one at a time, against fresh stores
SpecBatch == Init /\ [][NextBatch]_vars

\* item i of the last batch did not get a scan result: its scan raised, or
\* returned the error dict of a failed deep-analysis call
BatchItemFailed(i) ==
    \/ ~IsDictResult(ret.value.gathered[i])
    \/ "error" \in DOMAIN ret.value.gathered[i]

\* C30 (as claimed): a batch of n items is answered with exactly n results,
\* results[i] for items[i]; an item whose scan fails, including through an
\* LLM failure, yields a placeholder with scan_mode "error" at its own
\* position, and the rest of the batch is still returned.
C30_BatchKeepsPositions ==
    ret.op = "scan_batch" =>
        /\ ret.value.status = 200
        /\ Len(ret.value.body.results) = Len(ret.value.items)
        /\ \A i \in DOMAIN ret.value.items :
               IF BatchItemFailed(i)
               THEN ret.value.body.results[i].scan_mode = "error"
               ELSE ret.value.body.results[i].text = ret.value.items[i].text.text

(***************************************************************************)
(* propose and report_false_positive called from several threads on one    *)
(* LearningRing (app/patterns/learned.py).  Both run their SELECT, their   *)
(* UPDATE or INSERT and their audit call inside "with self._lock"; a step  *)
(* is taken for entering the lock, one for the SELECT and one for the rest.*)
(* The table either is empty or holds the pattern two confirmations short  *)
(* of the activation threshold.                                            *)
(***************************************************************************)
MaxRingCalls == 4     \* LearningRing calls made in one behaviour
RingSeeds == {0, activation_threshold - 2}

\* the calls threads make: valid proposals, a proposal of a tier that does
\* not exist, false-positive reports
RingCalls ==
    {[op |-> "propose", p |-> PatternA, pit_tier |-> PatternA.pit_tier,
      severity |-> PatternA.severity],
     [op |-> "propose", p |-> PatternA, pit_tier |-> 4,
      severity |-> PatternA.severity],
     [op |-> "report_false_positive", p |-> PatternA]}

\* self._lock as if it were never held
RingLockIgnored == TRUE

\* self._lock is free: no thread is inside "with self._lock"
RingLockFree == \A u \in Threads : pc[u] \notin {"ring_select", "ring_write"}

\* the columns a thread's SELECT returned, put back over the table's row
RingAsRead(rg, pattern_id, read) ==
    LET i == RingIndex(rg, pattern_id)
    IN IF i = 0 \/ ~read.found THEN rg
       ELSE [rg EXCEPT ![i] = read.columns @@ rg[i]]

\* the outcome of a call run to its end on the stores w
RingApply(w, call) ==
    IF call.op = "propose"
    THEN RingPropose(w, call.p.pattern_id, call.p.name, call.pit_tier, call.severity,
                     call.p.principle, call.p.regex, SourceHash)
    ELSE RingReportFalsePositive(w, call.p.pattern_id)

\* a thread calls propose or report_false_positive; propose returns at once
\* on a tier or a severity that does not exist
RingCall(t, call) ==
    /\ pc[t] = "idle"
    /\ Len(history) + Cardinality({u \in Threads : pc[u] # "idle"}) < MaxRingCalls
    /\ IF call.op = "propose"
          /\ (call.pit_tier \notin Tiers \/ call.severity \notin Severities)
       THEN /\ history' = Append(history, [thread |-> t, call |-> call,
                                           result |-> RingApply(World, call).result])
            /\ UNCHANGED <<pc, frame>>
       ELSE /\ pc' = [pc EXCEPT ![t] = "ring_lock"]
            /\ frame' = [frame EXCEPT ![t] = [op |-> call.op, call |-> call]]
            /\ history' = history
    /\ UNCHANGED <<rows, seq, lockHolder, ret, now, tamper, scoreVars, evalVars, corrVars,
                   llmIn, llmOut, aiIn, aiOut, windows, ringThreshold, scanVars>>

\* with self._lock: the thread enters when the lock is free
RingEnter(t) ==
    /\ pc[t] = "ring_lock"
    /\ RingLockFree
    /\ pc' = [pc EXCEPT ![t] = "ring_select"]
    /\ UNCHANGED <<rows, seq, lockHolder, frame, ret, now, tamper, scoreVars, evalVars,
                   corrVars, unitVars, scanVars>>

\* the SELECT of the call: confirmations and status for propose,
\* false_positives, total_evaluations and status for report_false_positive
RingSelect(t) ==
    /\ pc[t] = "ring_select"
    /\ pc' = [pc EXCEPT ![t] = "ring_write"]
    /\ LET i == RingIndex(ring, frame[t].call.p.pattern_id)
       IN frame' = [frame EXCEPT ![t] =
              [read |-> IF i = 0 THEN [found |-> FALSE]
                        ELSE IF frame[t].op = "propose"
                        THEN [found |-> TRUE,
                              columns |-> [status |-> ring[i].status,
                                           confirmations |-> ring[i].confirmations]]
                        ELSE [found |-> TRUE,
                              columns |-> [status |-> ring[i].status,
                                           false_positives |-> ring[i].false_positives,
                                           total_evaluations |->
                                               ring[i].total_evaluations]]] @@ @]
    /\ UNCHANGED <<rows, seq, lockHolder, ret, now, tamper, scoreVars, evalVars, corrVars,
                   unitVars, scanVars>>

\* the rest of the call, from what the SELECT returned: UPDATE or INSERT,
\* commit, audit, activation or deactivation, return and leave the lock; an
\* INSERT of an id the table holds by now fails on the primary key
RingWrite(t) ==
    /\ pc[t] = "ring_write"
    /\ pc' = [pc EXCEPT ![t] = "idle"]
    /\ frame' = [frame EXCEPT ![t] = NoFrame]
    /\ LET call == frame[t].call
           read == frame[t].read
           present == RingIndex(ring, call.p.pattern_id) # 0
       IN IF call.op = "propose" /\ ~read.found /\ present
          THEN /\ history' = Append(history, [thread |-> t, call |-> call,
                                              result |-> [exc |-> "IntegrityError"]])
               /\ UNCHANGED <<ring, rows, seq>>
          ELSE \E r \in {RingApply([World EXCEPT !.ring =
                                       RingAsRead(ring, call.p.pattern_id, read)],
                                   call)} :
                   /\ ring' = r.w.ring
                   /\ rows' = r.w.rows
                   /\ seq' = r.w.seq
                   /\ history' = Append(history, [thread |-> t, call |-> call,
                                                  result |-> r.result])
    /\ UNCHANGED <<lockHolder, ret, now, tamper, scoreVars, evalVars, corrVars,
                   llmIn, llmOut, aiIn, aiOut, windows, ringThreshold, cache, mono, breaker, resp,
                   served, seen>>

\* one LearningRing with the audit hook wired, its table as an earlier run
\* left it
InitShared ==
    /\ now = 0
    /\ ringThreshold = activation_threshold
    /\ \E n \in RingSeeds :
           /\ rows = Seeded(n).rows
           /\ seq = Seeded(n).seq
           /\ ring = Seeded(n).ring
    /\ lockHolder = "none"
    /\ pc = [t \in Threads |-> "idle"]
    /\ frame = [t \in Threads |-> NoFrame]
    /\ ret = NoRet
    /\ tamper = NoTamper
    /\ scoreIn = NoScoreIn
    /\ scoreOut = NoScoreOut
    /\ evalIn = NoEvalIn
    /\ evalOut = NoEvalOut
    /\ corrIn = NoCorrIn
    /\ corrOut = NoCorrOut
    /\ llmIn = NoLlmIn
    /\ llmOut = NoLlmOut
    /\ aiIn = NoAiIn
    /\ aiOut = NoAiOut
    /\ history = <<>>
    /\ windows = <<>>
    /\ cache = <<>>
    /\ mono = 0
    /\ breaker = BreakerClosed
    /\ resp = NoResp
    /\ served = 0
    /\ seen = NoSeen

NextShared ==
    \/ \E t \in Threads, call \in RingCalls : RingCall(t, call)
    \/ \E t \in Threads : RingEnter(t)
    \/ \E t \in Threads : RingSelect(t)
    \/ \E t \in Threads : RingWrite(t)

\* threads calling propose and report_false_positive on one LearningRing
SpecShared == InitShared /\ [][NextShared]_vars

RECURSIVE Replay(_, _)
\* the stores after the first k completed calls run one after another, in
\* the order they completed, on the stores w
Replay(w, k) ==
    IF k = 0 THEN w ELSE RingApply(Replay(w, k - 1), history[k].call).w

\* the audit events of the given type
EventsOf(event_type) == {row \in rows : row.event_type = event_type}

\* C31: whatever the interleaving of concurrent propose and
\* report_false_positive calls on one LearningRing, the table and the audit
\* chain are those of the completed calls run serially in the order they
\* completed, and each call returned what it returns in that serial run; so
\* there is one row per id, its confirmations count the accepted proposals,
\* its false_positives count the reports, and it is activated at most once.
C31_RingCallsSerializable ==
    /\ \E n \in RingSeeds :
           /\ ring = Replay(Seeded(n), Len(history)).ring
           /\ rows = Replay(Seeded(n), Len(history)).rows
           /\ \A k \in DOMAIN history :
                  history[k].result = RingApply(Replay(Seeded(n), k - 1),
                                                history[k].call).result
    /\ Len(ring) <= 1
    /\ \A i \in DOMAIN ring :
           /\ ring[i].confirmations =
                  Cardinality(EventsOf("pattern_proposed"))
                      + Cardinality(EventsOf("pattern_confirmed"))
           /\ ring[i].false_positives =
                  Cardinality({k \in DOMAIN history :
                      /\ history[k].call.op = "report_false_positive"
                      /\ "action" \in DOMAIN history[k].result})
    /\ Cardinality(EventsOf("pattern_activated")) <= 1

\* two threads propose the same new id at the same time: one has done its
\* SELECT on the empty table and holds the lock, the other waits for it
C31_Witness ==
    /\ ring = <<>>
    /\ \E t \in Threads, u \in Threads :
           /\ pc[t] = "ring_write" /\ frame[t].op = "propose" /\ ~frame[t].read.found
           /\ pc[u] = "ring_lock" /\ frame[u].op = "propose"

(***************************************************************************)
(* GeminiProvider.generate with its retries (biasclear/llm/gemini.py): the *)
(* primary model is called through _call_model with max_retries=2, then,   *)
(* when it is not the fallback model itself, the fallback model with       *)
(* max_retries=1.  The model's answers to the successive calls are given.  *)
(***************************************************************************)
FALLBACK_MODEL == "gemini-2.5-flash"
Models == {FALLBACK_MODEL, "gemini-2.5-pro"}
MaxAnswers == 3     \* answers the models have ready for one generate call

\* what a call of the model ends in: a response, an exception whose text
\* names a transient condition ("503", "timeout", ...), another exception
Answers == {"ok", "transient", "fatal"}

\* a faulty retry test: every exception is retried
ShouldRetryAny(answer, attempt, max_retries) == attempt < max_retries - 1

\* is_transient and attempt < max_retries - 1
ShouldRetry(answer, attempt, max_retries) ==
    answer = "transient" /\ attempt < max_retries - 1

RECURSIVE Pow2(_)
\* 2 ** attempt
Pow2(n) == IF n = 0 THEN 1 ELSE 2 * Pow2(n - 1)

RECURSIVE CallModel(_, _, _, _, _)
\* _call_model from the given attempt on: the answers left, the calls and
\* sleeps made so far in log; returns whether a response came back
CallModel(model, answers, max_retries, attempt, log) ==
    LET called == Append(log, [ev |-> "call", model |-> model, answer |-> Head(answers)])
    IN IF Head(answers) = "ok"
       THEN [ok |-> TRUE, answers |-> Tail(answers), log |-> called]
       ELSE IF ShouldRetry(Head(answers), attempt, max_retries)
       THEN CallModel(model, Tail(answers), max_retries, attempt + 1,
                      Append(called, [ev |-> "sleep", seconds |-> Pow2(attempt)]))
       ELSE [ok |-> FALSE, answers |-> Tail(answers), log |-> called]

\* generate after the primary model failed
GenerateFallback(model, br, t, primary) ==
    IF model # FALLBACK_MODEL
    THEN LET fallback == CallModel(FALLBACK_MODEL, primary.answers, 1, 0, primary.log)
         IN IF fallback.ok
            THEN [exc |-> "none", log |-> fallback.log, breaker |-> record_success(br),
                  failures_recorded |-> 0]
            ELSE [exc |-> "Exception", log |-> fallback.log,
                  breaker |-> record_failure(br, t), failures_recorded |-> 1]
    ELSE [exc |-> "Exception", log |-> primary.log, breaker |-> record_failure(br, t),
          failures_recorded |-> 1]

\* generate after the breaker let the call through
GeneratePrimary(model, br, t, primary) ==
    IF primary.ok
    THEN [exc |-> "none", log |-> primary.log, breaker |-> record_success(br),
          failures_recorded |-> 0]
    ELSE GenerateFallback(model, br, t, primary)

\* GeminiProvider.generate at monotonic time t
generate(model, br, t, answers) ==
    IF BreakerState(br, t).state = "open"
    THEN [exc |-> "CircuitOpenError", log |-> <<>>, breaker |-> br,
          failures_recorded |-> 0]
    ELSE GeneratePrimary(model, br, t, CallModel(model, answers, 2, 0, <<>>))

InitGenerate ==
    /\ rows = {}
    /\ seq = 0
    /\ lockHolder = "none"
    /\ pc = [t \in Threads |-> "idle"]
    /\ frame = [t \in Threads |-> NoFrame]
    /\ ret = NoRet
    /\ now = 0
    /\ tamper = NoTamper
    /\ scoreIn = NoScoreIn
    /\ scoreOut = NoScoreOut
    /\ evalIn = NoEvalIn
    /\ evalOut = NoEvalOut
    /\ corrIn = NoCorrIn
    /\ corrOut = NoCorrOut
    /\ llmIn \in [called : {TRUE}, model : Models, answers : [1..MaxAnswers -> Answers],
                  breaker : CorrectBreakers]
    /\ llmOut = NoLlmOut
    /\ aiIn = NoAiIn
    /\ aiOut = NoAiOut
    /\ history = <<>>
    /\ windows = <<>>
    /\ ringThreshold = activation_threshold
    /\ cache = <<>>
    /\ mono \in {0, CB_RECOVERY_TIMEOUT}
    /\ ring = <<>>
    /\ breaker = llmIn.breaker
    /\ resp = NoResp
    /\ served = 0
    /\ seen = NoSeen

\* one generate call, from the breaker test to its return or raise
Generate ==
    /\ llmIn.called
    /\ ~llmOut.done
    /\ \E out \in {generate(llmIn.model, breaker, mono, llmIn.answers)} :
           /\ llmOut' = [done |-> TRUE, exc |-> out.exc, log |-> out.log,
                         failures_recorded |-> out.failures_recorded]
           /\ breaker' = out.breaker
    /\ UNCHANGED <<auditVars, scoreVars, evalVars, corrVars, llmIn, aiIn, aiOut, history,
                   windows, ringThreshold, cache, mono, ring, resp, served, seen>>

NextGenerate == Generate

SpecGenerate == InitGenerate /\ [][NextGenerate]_vars

\* the positions of the model calls, and of the sleeps, in the call's log
CallsAt == {k \in DOMAIN llmOut.log : llmOut.log[k].ev = "call"}
SleepsAt == {k \in DOMAIN llmOut.log : llmOut.log[k].ev = "sleep"}

\* C32: one generate call invokes the model at most 3 times; a call of the
\* same model again (a retry) happens only after a transient error and a
\* sleep, and the sleeps of one call grow; the breaker records exactly one
\* failure when the call fails in the end, and none when a retry or the
\* fallback model answered.
C32_RetriesAndBreaker ==
    llmOut.done =>
        /\ Cardinality(CallsAt) <= 3
        /\ \A k \in CallsAt :
               (k > 1 /\ llmOut.log[k - 1].ev = "call")
                   => llmOut.log[k].model # llmOut.log[k - 1].model
        /\ \A k \in SleepsAt :
               /\ k > 1 /\ k < Len(llmOut.log)
               /\ llmOut.log[k - 1].ev = "call"
               /\ llmOut.log[k - 1].answer = "transient"
               /\ llmOut.log[k + 1].ev = "call"
               /\ llmOut.log[k + 1].model = llmOut.log[k - 1].model
        /\ \A j \in SleepsAt, k \in SleepsAt :
               j < k => llmOut.log[j].seconds < llmOut.log[k].seconds
        /\ (llmOut.exc = "none" =>
               /\ llmOut.failures_recorded = 0
               /\ breaker = record_success(llmIn.breaker)
               /\ llmOut.log[Len(llmOut.log)].answer = "ok")
        /\ (llmOut.exc = "Exception" =>
               /\ llmOut.failures_recorded = 1
               /\ breaker.failures = llmIn.breaker.failures + 1
               /\ \A k \in CallsAt : llmOut.log[k].answer # "ok")
        /\ (llmOut.exc = "CircuitOpenError" =>
               /\ CallsAt = {} /\ breaker = llmIn.breaker)

\* the primary model fails on a transient error, fails again after the
\* sleep, and the fallback model answers: three calls, no failure recorded
\* although the breaker stood one failure short of opening
C32_Witness ==
    /\ llmOut.done
    /\ Cardinality(CallsAt) = 3
    /\ SleepsAt # {}
    /\ llmOut.exc = "none"
    /\ llmIn.breaker.failures = 2
    /\ breaker.failures = 0

(***************************************************************************)
(* _extract_ai_flags (biasclear/detector.py) on flags arrays as an LLM may  *)
(* return them: fields missing, ids repeated in another case or padded     *)
(* with blanks, severities and tiers outside the canonical values, and     *)
(* elements that are no objects at all.  Ids, matched texts and severities *)
(* that are present are JSON strings.                                      *)
(***************************************************************************)
MaxRawFlags == 3     \* elements of one flags array

RawFlags ==
    {[pattern_id |-> "NOVEL_FRAME", matched_text |-> "plainly obvious",
      severity |-> "HIGH", pit_tier |-> 2],
     [pattern_id |-> "novel_frame", matched_text |-> "clearly", pit_tier |-> 5],
     [pattern_id |-> " NOVEL_FRAME ", matched_text |-> "of course",
      severity |-> "Extreme", pit_tier_text |-> "abc"],
     [pattern_id |-> "", matched_text |-> "clearly", severity |-> "low"],
     [pattern_id |-> "OTHER_FRAME", matched_text |-> "  ", severity |-> "low",
      pit_tier |-> 1],
     [pattern_id |-> "OTHER_FRAME", matched_text |-> "obviously",
      severity |-> "critical", pit_tier_text |-> "3"],
     [pattern_id |-> "THIRD_FRAME", matched_text |-> "naturally",
      severity |-> "low", pit_tier |-> 0],
     [not_a_dict |-> TRUE]}

LocalFlagIds == {<<>>, <<"Novel_Frame">>, <<"CONSENSUS_AS_EVIDENCE", "OTHER_FRAME">>}

InitExtract ==
    /\ rows = {}
    /\ seq = 0
    /\ lockHolder = "none"
    /\ pc = [t \in Threads |-> "idle"]
    /\ frame = [t \in Threads |-> NoFrame]
    /\ ret = NoRet
    /\ now = 0
    /\ tamper = NoTamper
    /\ scoreIn = NoScoreIn
    /\ scoreOut = NoScoreOut
    /\ evalIn = NoEvalIn
    /\ evalOut = NoEvalOut
    /\ corrIn = NoCorrIn
    /\ corrOut = NoCorrOut
    /\ llmIn = NoLlmIn
    /\ llmOut = NoLlmOut
    /\ aiIn \in [called : {TRUE},
                 deep_result : [flags : SeqsUpTo(RawFlags, MaxRawFlags)],
                 local_flag_ids : LocalFlagIds]
    /\ aiOut = NoAiOut
    /\ history = <<>>
    /\ windows = <<>>
    /\ ringThreshold = activation_threshold
    /\ cache = <<>>
    /\ mono = 0
    /\ ring = <<>>
    /\ breaker = BreakerClosed
    /\ resp = NoResp
    /\ served = 0
    /\ seen = NoSeen

\* one call of _extract_ai_flags
ExtractFlags ==
    /\ aiIn.called
    /\ ~aiOut.done
    /\ aiOut' = [done |-> TRUE,
                 flags |-> ExtractAiFlags(aiIn.deep_result, aiIn.local_flag_ids)]
    /\ UNCHANGED <<auditVars, scoreVars, evalVars, corrVars, llmIn, llmOut, aiIn, history,
                   windows, ringThreshold, scanVars>>

NextExtract == ExtractFlags

SpecExtract == InitExtract /\ [][NextExtract]_vars

\* two ids are the same when case is ignored
SameIdIgnoringCase(a, b) ==
    \/ a = b
    \/ {a, b} \subseteq {"NOVEL_FRAME", "novel_frame", "Novel_Frame"}
    \/ {a, b} \subseteq {"OTHER_FRAME", "other_frame"}
    \/ {a, b} \subseteq {"CONSENSUS_AS_EVIDENCE", "consensus_as_evidence"}

\* the kept flag comes from the raw flag: same id and matched text up to
\* surrounding blanks, the raw flag's severity when it is canonical in lower
\* case and moderate otherwise, the raw flag's tier brought into 1..3, or 2
\* when it is missing or no number
KeptFrom(kept, raw) ==
    /\ "not_a_dict" \notin DOMAIN raw
    /\ "pattern_id" \in DOMAIN raw /\ "matched_text" \in DOMAIN raw
    /\ kept.pattern_id \in {raw.pattern_id, Strip(raw.pattern_id)}
    /\ kept.matched_text \in {raw.matched_text, Strip(raw.matched_text)}
    /\ kept.severity =
           (IF "severity" \notin DOMAIN raw THEN "moderate"
            ELSE CASE raw.severity \in {"low", "LOW"} -> "low"
                   [] raw.severity \in {"moderate", "MODERATE"} -> "moderate"
                   [] raw.severity \in {"high", "HIGH"} -> "high"
                   [] raw.severity \in {"critical", "CRITICAL"} -> "critical"
                   [] OTHER -> "moderate")
    /\ kept.pit_tier =
           (IF "pit_tier" \in DOMAIN raw
            THEN (IF raw.pit_tier < 1 THEN 1
                  ELSE IF raw.pit_tier > 3 THEN 3 ELSE raw.pit_tier)
            ELSE IF "pit_tier_text" \in DOMAIN raw /\ raw.pit_tier_text \in {"1", "2", "3"}
            THEN ParseInt(raw.pit_tier_text)
            ELSE 2)

\* C33: every AI flag the extractor keeps has a non-empty pattern_id and
\* matched_text, a severity among low, moderate, high, critical (moderate
\* when missing or unknown) and a tier in 1..3 (2 when unparsable); no kept
\* flag's id equals, ignoring case, a local flag id or another kept flag's
\* id; and the kept flags stay in the LLM's order.
C33_KeptAiFlagsNormalized ==
    aiOut.done =>
        LET kept == aiOut.flags
            raw == aiIn.deep_result.flags
        IN /\ \A i \in DOMAIN kept :
                  /\ kept[i].pattern_id # "" /\ kept[i].matched_text # ""
                  /\ kept[i].severity \in {"low", "moderate", "high", "critical"}
                  /\ kept[i].pit_tier \in 1..3
                  /\ \A j \in DOMAIN aiIn.local_flag_ids :
                         ~SameIdIgnoringCase(kept[i].pattern_id, aiIn.local_flag_ids[j])
                  /\ \A j \in DOMAIN kept :
                         j # i => ~SameIdIgnoringCase(kept[i].pattern_id,
                                                      kept[j].pattern_id)
           /\ \E at \in [DOMAIN kept -> DOMAIN raw] :
                  /\ \A i \in DOMAIN kept, j \in DOMAIN kept : i < j => at[i] < at[j]
                  /\ \A i \in DOMAIN kept : KeptFrom(kept[i], raw[at[i]])

\* a flags array with an out-of-range tier, a missing severity and an id
\* repeated in another case: two flags are kept, in order
C33_Witness ==
    /\ aiOut.done
    /\ aiIn.local_flag_ids = <<>>
    /\ aiIn.deep_result.flags =
           <<[pattern_id |-> "novel_frame", matched_text |-> "clearly", pit_tier |-> 5],
             [pattern_id |-> " NOVEL_FRAME ", matched_text |-> "of course",
              severity |-> "Extreme", pit_tier_text |-> "abc"],
             [pattern_id |-> "THIRD_FRAME", matched_text |-> "naturally",
              severity |-> "low", pit_tier |-> 0]>>
    /\ Len(aiOut.flags) = 2
    /\ aiOut.flags[1].pit_tier = 3 /\ aiOut.flags[1].severity = "moderate"
    /\ aiOut.flags[2].pit_tier = 1

\* the ids of the n newest entries
NewestIds(n) == {r.id : r \in {q \in rows : Cardinality({p \in rows : p.id > q.id}) < n}}

\* C34 (as claimed): verify_chain(limit=N) checks the N most recent entries:
\* when the chain holds more than N entries, an out-of-band change of the
\* data of any of the N newest entries makes verify_chain(N) return
\* verified=false.
C34_NewestTamperReported ==
    tamper.field = "data" =>
        \A limit \in Limits :
            (Cardinality(rows) > limit /\ tamper.id \in NewestIds(limit))
                => ~VerifyChain(rows, limit).verified

(***************************************************************************)
(* GET /certificate/verify/{audit_hash} (api/main.py, verify_certificate): *)
(* the hash is looked for among the entries get_recent returns.  The       *)
(* endpoint asks for the 500 newest entries; the chains here hold a few    *)
(* rows, so the number asked for is scaled down with them.                 *)
(***************************************************************************)
CertificateLimit == 2    \* stands for limit=500 of verify_certificate

\* the hashes a certificate is verified by: those in the chain, and one that
\* is not
CertificateHashes == {r.hash : r \in rows} \cup {Sha256("forged")}

\* verify_certificate(audit_hash), truth_score left out
verify_certificate(rs, audit_hash) ==
    LET entries == GetRecentRows(rs, CertificateLimit, "none")
    IN IF \E i \in DOMAIN entries : entries[i].hash = audit_hash
       THEN LET entry == entries[CHOOSE i \in DOMAIN entries :
                                     /\ entries[i].hash = audit_hash
                                     /\ \A j \in 1..(i - 1) :
                                            entries[j].hash # audit_hash]
            IN [verified |-> TRUE, audit_hash |-> audit_hash,
                event_type |-> entry.event_type, timestamp |-> entry.timestamp]
       ELSE [verified |-> FALSE, audit_hash |-> audit_hash]

\* one GET /certificate/verify/{audit_hash} request
VerifyCertificate(t, audit_hash) ==
    /\ pc[t] = "idle"
    /\ ret' = [thread |-> t, op |-> "verify_certificate",
               value |-> verify_certificate(rows, audit_hash)]
    /\ UNCHANGED <<rows, seq, lockHolder, pc, frame, now, tamper, scoreVars, evalVars,
                   corrVars, unitVars, scanVars>>

NextCertificate ==
    \/ \E e \in EventTypes, d \in LogData, cv \in CoreVersions : CallLog(Writer, e, d, cv)
    \/ LogAcquire(Writer)
    \/ LogRead(Writer)
    \/ LogInsert(Writer)
    \/ \E audit_hash \in CertificateHashes : VerifyCertificate(Writer, audit_hash)

\* entries are logged and certificates verified, one request at a time
SpecCertificate == Init /\ [][NextCertificate]_vars

\* C35 (as claimed): GET /certificate/verify/{hash} returns verified=true
\* for every hash that exists in the audit chain, however many entries were
\* appended after it.
C35_ExistingHashVerifies ==
    \A r \in rows : verify_certificate(rows, r.hash).verified

(***************************************************************************)
(* The rate limiter (biasclear/rate_limit.py): _windows as a sequence of   *)
(* [key, timestamps] in access order, time.time() in whole seconds.        *)
(* Rate limiting is enabled.                                               *)
(***************************************************************************)
MAX_RATE_LIMIT_KEYS == 5000
MaxWall == 130        \* the wall clock advances only while below this
MaxRequests == 4      \* check_rate_limit calls made in one behaviour
MinuteStep == 61      \* seconds the wall clock advances at a time

KeyIds == {"k1", "k2", "None"}
LimitSettings == {[per_minute |-> 1, per_hour |-> 2], [per_minute |-> 2, per_hour |-> 2],
                  [per_minute |-> 2, per_hour |-> 3]}

\* the position of key_id in _windows, 0 if absent
WindowIndex(ws, key_id) ==
    IF \E i \in DOMAIN ws : ws[i].key = key_id
    THEN CHOOSE i \in DOMAIN ws : ws[i].key = key_id
    ELSE 0

\* RateWindow.count_within: the timestamps it leaves in the window
WithinWindow(timestamps, window_seconds, t) ==
    SelectSeq(timestamps, LAMBDA ts : ts > t - window_seconds)

\* the first part of check_rate_limit: the key's window is created, after
\* evicting the least recently used one at capacity, or moved to the end
TouchWindow(ws, key_id) ==
    LET i == WindowIndex(ws, key_id)
    IN IF i = 0
       THEN Append(IF Len(ws) >= MAX_RATE_LIMIT_KEYS THEN Tail(ws) ELSE ws,
                   [key |-> key_id, timestamps |-> <<>>])
       ELSE RemoveAt(ws, i) \o <<ws[i]>>

\* check_rate_limit(key_id, limits) at time t on a touched _windows: both
\* counts prune the one timestamps list, the minute count first
CheckWindow(ws, limits, t) ==
    LET after_minute == WithinWindow(ws[Len(ws)].timestamps, 60, t)
        after_hour == WithinWindow(after_minute, 3600, t)
    IN IF Len(after_minute) >= limits.per_minute
       THEN [status |-> 429, detail |-> "minute",
             windows |-> [ws EXCEPT ![Len(ws)].timestamps = after_minute]]
       ELSE IF Len(after_hour) >= limits.per_hour
       THEN [status |-> 429, detail |-> "hour",
             windows |-> [ws EXCEPT ![Len(ws)].timestamps = after_hour]]
       ELSE [status |-> 200, detail |-> "",
             windows |-> [ws EXCEPT ![Len(ws)].timestamps = Append(after_hour, t)]]

\* check_rate_limit(key_id, limits) at time t
check_rate_limit(ws, key_id, limits, t) ==
    IF key_id = "None"
    THEN [status |-> 200, detail |-> "", windows |-> ws]
    ELSE CheckWindow(TouchWindow(ws, key_id), limits, t)

\* one request passes through check_rate_limit
CheckRateLimit(key_id, limits) ==
    /\ Len(history) < MaxRequests
    /\ \E out \in {check_rate_limit(windows, key_id, limits, now)} :
           /\ windows' = out.windows
           /\ history' = Append(history, [key_id |-> key_id, limits |-> limits,
                                          at |-> now, status |-> out.status,
                                          detail |-> out.detail])
    /\ UNCHANGED <<rows, seq, lockHolder, pc, frame, ret, now, tamper, scoreVars, evalVars,
                   corrVars, llmIn, llmOut, aiIn, aiOut, ringThreshold, scanVars>>

\* a little more than a minute passes
WallAdvance ==
    /\ now < MaxWall
    /\ now' = now + MinuteStep
    /\ UNCHANGED <<rows, seq, lockHolder, pc, frame, ret, tamper, scoreVars, evalVars,
                   corrVars, unitVars, scanVars>>

NextLimit ==
    \/ \E key_id \in KeyIds, limits \in LimitSettings : CheckRateLimit(key_id, limits)
    \/ WallAdvance

\* requests of several keys passing the rate limiter as time goes by
SpecLimit == Init /\ [][NextLimit]_vars

\* the requests of the key and limits of request k that were admitted in the
\* 3600 seconds up to request k
AdmittedInHour(k) ==
    {j \in 1..k : /\ history[j].key_id = history[k].key_id
                  /\ history[j].limits = history[k].limits
                  /\ history[j].status = 200
                  /\ history[j].at > history[k].at - 3600}

\* C36 (as claimed): for every key and every limits setting,
\* check_rate_limit admits at most per_hour requests of that key within any
\* 3600-second sliding window; every further request in the window is
\* answered with HTTP 429.
C36_HourlyLimitEnforced ==
    \A k \in DOMAIN history :
        history[k].key_id # "None"
            => Cardinality(AdmittedInHour(k)) <= history[k].limits.per_hour

\* C37 (as claimed): in every state reachable through propose,
\* report_false_positive and record_evaluation, no active pattern has
\* total_evaluations above 0 and a false-positive rate, false_positives
\* divided by total_evaluations, above fp_limit.
C37_NoActivePatternOverLimit ==
    \A i \in DOMAIN ring :
        ring[i].status = "active"
            => ~(/\ ring[i].total_evaluations > 0
                 /\ ring[i].false_positives * 100 > fp_limit * ring[i].total_evaluations)

(***************************************************************************)
(* LearningRing objects constructed with other activation thresholds than  *)
(* the default (app/patterns/learned.py, __init__).                        *)
(***************************************************************************)
MaxThreshold == 3     \* the largest activation_threshold a ring is built with

InitThreshold ==
    /\ rows = {}
    /\ seq = 0
    /\ lockHolder = "none"
    /\ pc = [t \in Threads |-> "idle"]
    /\ frame = [t \in Threads |-> NoFrame]
    /\ ret = NoRet
    /\ now = 0
    /\ tamper = NoTamper
    /\ scoreIn = NoScoreIn
    /\ scoreOut = NoScoreOut
    /\ evalIn = NoEvalIn
    /\ evalOut = NoEvalOut
    /\ corrIn = NoCorrIn
    /\ corrOut = NoCorrOut
    /\ llmIn = NoLlmIn
    /\ llmOut = NoLlmOut
    /\ aiIn = NoAiIn
    /\ aiOut = NoAiOut
    /\ history = <<>>
    /\ windows = <<>>
    /\ ringThreshold \in 1..MaxThreshold
    /\ cache = <<>>
    /\ mono = 0
    /\ ring = <<>>
    /\ breaker = BreakerClosed
    /\ resp = NoResp
    /\ served = 0
    /\ seen = NoSeen

NextThreshold ==
    \/ \E a \in ProposeArgs : Propose(a)
    \/ \E p \in RingPatterns : ReportFalsePositive(p.pattern_id)
    \/ \E p \in RingPatterns : RecordEvaluation(p.pattern_id)

\* the ring's operations, one at a time, on a ring of any small threshold
SpecThreshold == InitThreshold /\ [][NextThreshold]_vars

\* C38 (as claimed): for every activation threshold of 1 or more, after any
\* propose call no pattern is left in staging with confirmations at or
\* above the threshold.
C38_NoStagingAtThreshold ==
    \A i \in DOMAIN ring :
        ring[i].status = "staging" => ring[i].confirmations < ringThreshold

C40_VerificationOfReturnedText ==
    (corrOut.done /\ corrOut.result.correction_triggered
        /\ "error" \notin DOMAIN corrOut.result) =>
        /\ "corrected" \in DOMAIN corrOut.result
        /\ LET v == VerifyCorrection(corrOut.result.corrected, corrIn.domain)
               reported == corrOut.result.verification
           IN /\ reported.truth_score_after = v.truth_score_after
              /\ reported.flags_remaining = v.flags_remaining
              /\ reported.passed
                     <=> Passed(v.truth_score_after, v.flags_remaining,
                                DictGet(corrIn.scan_result, "truth_score", 100),
                                StructuralCount(corrIn.scan_result))

====
